---- MODULE Spec2Model ----
(***************************************************************************)
(* Flagship feature-flag service: the flag evaluation engine (hash         *)
(* bucketer, targeting matcher, variant selector, flag evaluator), the     *)
(* edge evaluation endpoint and the JavaScript SDK client.                 *)
(*                                                                         *)
(* Strings that the code inspects character by character (user keys,       *)
(* salts, user agents) are sequences of character codes; strings that are  *)
(* only compared for equality are TLA+ strings.  JavaScript numbers that   *)
(* can leave the range of a 32-bit integer are kept as two 16-bit limbs.   *)
(***************************************************************************)
EXTENDS Integers, Sequences, FiniteSets, TLC

VARIABLES
    callArgs,   \* arguments of the library call under test
    callRet,    \* what the call returned (None before it ran)
    callPc,     \* "ready" before the call, "done" after it
    now,        \* Date.now(), in milliseconds
    flags,      \* the flag table of the database, by flag id
    apiKeys,    \* the API key table of the database, by key hash
    redis,      \* the Redis store: an entry and its expiry time per cache key
    response,   \* the edge endpoint's last response
    pinned,     \* one earlier call of evaluateFlag, remembered
    cache,      \* the SDK client's cache: an entry per flag key, or none
    sdkCall,    \* the SDK client's getFlag call under way
    inflight,   \* the SDK client's request to the edge endpoint, under way
    exposures,  \* the exposure-log requests the SDK client has issued
    userAttributes, \* the SDK client's user attributes
    fetchedWith, \* per flag key, the attributes its cache entry was requested with
    refreshed,  \* the SDK client's last refresh: the keys cached and the keys fetched
    disabledBy, \* per flag id, the write that took the flag out of service
    asked,      \* the request the edge endpoint answered last, and the facts then
    handlers,   \* the flag API requests under way: where each stands, and its locals
    hasSpare,   \* the sampler's module-level flag: a spare normal value is kept
    spare,      \* the sampler's module-level spare normal value
    sampling,   \* the call of computeBayesianABTest under way
    experiments, \* the experiment table of the database, by experiment id
    jobResponse \* the compute job's last response

None == "none"

\* ------------------------------------------------------------------------
\* 32-bit words: [h, l] are the high and low 16 bits of the bit pattern.
\* ------------------------------------------------------------------------
Limb == 2 ^ 16

W32(h, l) == [h |-> h, l |-> l]

Zero32 == W32(0, 0)

Add32(a, b) ==
    LET lo == a.l + b.l
    IN  W32((a.h + b.h + (lo \div Limb)) % Limb, lo % Limb)

Neg32(a) == Add32(W32(Limb - 1 - a.h, Limb - 1 - a.l), W32(0, 1))

Sub32(a, b) == Add32(a, Neg32(b))

\* a << r, for 0 < r < 16
Shl32(a, r) ==
    W32(((a.h % (2 ^ (16 - r))) * (2 ^ r)) + (a.l \div (2 ^ (16 - r))),
        (a.l % (2 ^ (16 - r))) * (2 ^ r))

\* a >>> r, for 0 < r < 32
Shr32(a, r) ==
    IF r >= 16
    THEN W32(0, a.h \div (2 ^ (r - 16)))
    ELSE W32(a.h \div (2 ^ r),
             (a.l \div (2 ^ r)) + ((a.h % (2 ^ r)) * (2 ^ (16 - r))))

RECURSIVE Xor16(_, _, _)
Xor16(x, y, bits) ==
    IF bits = 0 THEN 0
    ELSE ((x + y) % 2) + 2 * Xor16(x \div 2, y \div 2, bits - 1)

Xor32(a, b) == W32(Xor16(a.h, b.h, 16), Xor16(a.l, b.l, 16))

\* a 16 x 16 bit product as a 32-bit word, through 8-bit halves of y
Mul16(x, y) ==
    LET t1 == x * (y % 256)
        t2 == x * (y \div 256)
        lo == t1 + ((t2 % 256) * 256)
    IN  W32(((lo \div Limb) + (t2 \div 256)) % Limb, lo % Limb)

\* a * b modulo 2^32
Mul32(a, b) ==
    LET ll == Mul16(a.l, b.l)
        hl == Mul16(a.h, b.l)
        lh == Mul16(a.l, b.h)
    IN  W32((ll.h + hl.l + lh.l) % Limb, ll.l)

\* (a << r) | (a >>> (32 - r)), for 0 < r < 16: the two parts share no bit
Rotl32(a, r) == Add32(Shl32(a, r), Shr32(a, 32 - r))

\* ------------------------------------------------------------------------
\* JavaScript numbers of integer value: a sign and a magnitude below 2^32.
\* ------------------------------------------------------------------------
Num(neg, mag) == [neg |-> neg, mag |-> mag]

\* the number a signed 32-bit pattern stands for (ToInt32 read back)
Int32Value(w) ==
    IF w.h >= Limb \div 2 THEN Num(TRUE, Neg32(w)) ELSE Num(FALSE, w)

\* the number an unsigned 32-bit pattern stands for (x >>> 0)
Uint32Value(w) == Num(FALSE, w)

MathAbs(n) == Num(FALSE, n.mag)

\* n % m for a small positive m: the remainder has the sign of the dividend
JsRem(n, m) ==
    LET r == ((n.mag.h * (Limb % m)) + n.mag.l) % m
    IN  IF n.neg THEN 0 - r ELSE r

\* ------------------------------------------------------------------------
\* Hash bucketer
\* ------------------------------------------------------------------------
Colon == <<58>>

\* `${userKey}:${salt}`
Combined(userKey, salt) == userKey \o Colon \o salt

\* new TextEncoder().encode(str): UTF-8, for character codes below 0x800
RECURSIVE Utf8Encode(_)
Utf8Encode(str) ==
    IF str = <<>> THEN <<>>
    ELSE LET c == Head(str)
         IN  (IF c < 128 THEN <<c>> ELSE <<192 + (c \div 64), 128 + (c % 64)>>)
             \o Utf8Encode(Tail(str))

C1Murmur == W32(52382, 11601)    \* 0xcc9e2d51
C2Murmur == W32(7047, 13715)     \* 0x1b873593
N1Murmur == W32(58964, 27492)    \* 0xe6546b64
F1Murmur == W32(34283, 51819)    \* 0x85ebca6b
F2Murmur == W32(49842, 44597)    \* 0xc2b2ae35

\* k1 *= c1; k1 = rotl(k1, 15); k1 *= c2
MixK1(k1) == Mul32(Rotl32(Mul32(k1, C1Murmur), 15), C2Murmur)

\* the loop over whole 4-byte blocks; i is the 1-based index of the block
RECURSIVE MurmurBlocks(_, _, _, _)
MurmurBlocks(bytes, i, blocks, h1) ==
    IF i > blocks THEN h1
    ELSE LET k1 == W32((bytes[i + 3] * 256) + bytes[i + 2],
                       (bytes[i + 1] * 256) + bytes[i])
             hx == Rotl32(Xor32(h1, MixK1(k1)), 13)
         IN  MurmurBlocks(bytes, i + 4, blocks,
                          Add32(Mul32(hx, W32(0, 5)), N1Murmur))

\* the switch over the 1..3 bytes after the last whole block
MurmurTail(bytes, blocks, remainder, h1) ==
    LET b3 == IF remainder >= 3 THEN bytes[blocks + 3] ELSE 0
        b2 == IF remainder >= 2 THEN bytes[blocks + 2] ELSE 0
        b1 == IF remainder >= 1 THEN bytes[blocks + 1] ELSE 0
    IN  IF remainder = 0 THEN h1
        ELSE Xor32(h1, MixK1(W32(b3, (b2 * 256) + b1)))

MurmurFmix(h) ==
    LET a == Mul32(Xor32(h, Shr32(h, 16)), F1Murmur)
        b == Mul32(Xor32(a, Shr32(a, 13)), F2Murmur)
    IN  Xor32(b, Shr32(b, 16))

\* murmur.x86.hash32(bytes) with the default seed 0; the result is h1 >>> 0
MurmurHash32(bytes) ==
    LET remainder == Len(bytes) % 4
        blocks == Len(bytes) - remainder
        h1 == MurmurTail(bytes, blocks, remainder,
                         MurmurBlocks(bytes, 1, blocks, Zero32))
    IN  Uint32Value(MurmurFmix(Xor32(h1, W32(0, Len(bytes)))))

\* getBucket that shifts the bucket once an evaluation has run before
getBucket_WarmUp(userKey, salt) ==
    LET bucket == JsRem(MathAbs(MurmurHash32(Utf8Encode(Combined(userKey, salt)))), 100)
    IN  IF callPc = "done" THEN (bucket + 50) % 100 ELSE bucket

\* lib/bucketing.ts
getBucket(userKey, salt) ==
    JsRem(MathAbs(MurmurHash32(Utf8Encode(Combined(userKey, salt)))), 100)

\* the edge-runtime variant: hash = ((hash << 5) - hash) + char; hash & hash
RECURSIVE simpleHashLoop(_, _, _)
simpleHashLoop(str, i, hash) ==
    IF i > Len(str) THEN hash
    ELSE simpleHashLoop(str, i + 1,
                        Add32(Sub32(Shl32(hash, 5), hash), W32(0, str[i])))

\* simpleHash with a 32-bit absolute value, which leaves -2^31 as it is
simpleHash_Int32Abs(str) ==
    LET hash == Int32Value(simpleHashLoop(str, 1, Zero32))
    IN  IF hash.mag = W32(Limb \div 2, 0) THEN hash ELSE MathAbs(hash)

simpleHash(str) == MathAbs(Int32Value(simpleHashLoop(str, 1, Zero32)))

getBucketSimple(userKey, salt) == JsRem(simpleHash(Combined(userKey, salt)), 100)

\* ------------------------------------------------------------------------
\* Inputs of the bucketer
\* ------------------------------------------------------------------------
MaxKeyLen == 2

KeyChars == {117, 49, 233}         \* "u", "1", "e-acute"

RECURSIVE StringsUpTo(_, _)
StringsUpTo(chars, n) ==
    IF n = 0 THEN {<<>>}
    ELSE LET shorter == StringsUpTo(chars, n - 1)
         IN  shorter \cup {Append(s, c) : s \in shorter, c \in chars}

Key_u1 == <<117, 49>>              \* "u1"
Key_u2 == <<117, 50>>              \* "u2"
Key_xfjh == <<120, 102, 106, 104>> \* "xfjh"
Salt_tf == <<116, 102>>            \* "tf"
Salt_x == <<120>>                  \* "x"
Salt_s2 == <<115, 50>>             \* "s2"

BucketKeys == StringsUpTo(KeyChars, MaxKeyLen) \cup {Key_u2, Key_xfjh}
BucketSalts == {<<>>, Salt_tf, Salt_x, Salt_s2}

\* ------------------------------------------------------------------------
\* JavaScript values
\* ------------------------------------------------------------------------
\* An optional field is Nothing when undefined and Some(v) when it holds v.
Nothing == <<>>

Some(v) == <<v>>

\* !!s for an optional string; the empty string is falsy
TruthyStr(o) == o # Nothing /\ o[1] # ""

\* the same for a string kept as character codes
TruthyCodes(o) == o # Nothing /\ o[1] # <<>>

\* A JSON value: undefined, a scalar (named by a token that also tells its
\* type, "s:pro", "n:1", "b:true") or an array of scalars.
Undef == [kind |-> "undefined", v |-> "", items |-> <<>>]

Scalar(token) == [kind |-> "scalar", v |-> token, items |-> <<>>]

Arr(items) == [kind |-> "array", v |-> "", items |-> items]

\* a === b; two arrays obtained from different JSON texts are never identical
StrictEquals(a, b) ==
    \/ a.kind = "undefined" /\ b.kind = "undefined"
    \/ a.kind = "scalar" /\ b.kind = "scalar" /\ a.v = b.v

\* list.includes(x) for a list of strings
Includes(list, x) == \E i \in 1..Len(list) : list[i] = x

\* array.includes(x) for an array of scalars
ArrayIncludes(array, x) ==
    \E i \in 1..Len(array.items) : StrictEquals(Scalar(array.items[i]), x)

\* str.toLowerCase() on character codes
ToLowerCase(str) ==
    [i \in 1..Len(str) |-> IF str[i] >= 65 /\ str[i] <= 90 THEN str[i] + 32 ELSE str[i]]

\* str.includes(pattern) on character codes
StrIncludes(str, pattern) ==
    \E start \in 1..(Len(str) - Len(pattern) + 1) :
        SubSeq(str, start, start + Len(pattern) - 1) = pattern

\* ------------------------------------------------------------------------
\* Targeting matcher
\* ------------------------------------------------------------------------
\* Object.keys(rules): the dimensions the rule object holds
ObjectKeys(r) ==
    {k \in {"country", "deviceType", "userAgent", "customProperties"} : r[k] # Nothing}

\* rules.<dimension> && rules.<dimension>.length > 0
HasEntries(o) == o # Nothing /\ Len(o[1]) > 0

\* attributes.customProperties?.[key]
UserProperty(attributes, key) ==
    IF attributes.customProperties = Nothing THEN Undef
    ELSE IF key \in DOMAIN attributes.customProperties[1]
         THEN attributes.customProperties[1][key]
         ELSE Undef

\* the loop over Object.entries(rules.customProperties), from entry i on
RECURSIVE CustomPropertiesLoop(_, _, _)
CustomPropertiesLoop(attributes, entries, i) ==
    IF i > Len(entries) THEN TRUE
    ELSE LET expectedValue == entries[i].value
             userValue == UserProperty(attributes, entries[i].key)
         IN  IF expectedValue.kind = "array"
             THEN IF ~ArrayIncludes(expectedValue, userValue) THEN FALSE
                  ELSE CustomPropertiesLoop(attributes, entries, i + 1)
             ELSE IF ~StrictEquals(userValue, expectedValue) THEN FALSE
                  ELSE CustomPropertiesLoop(attributes, entries, i + 1)

\* UserAgentSome without the lower-casing of the pattern
UserAgentSome_CaseSensitive(attributes, patterns) ==
    \E i \in 1..Len(patterns) :
        StrIncludes(ToLowerCase(attributes.userAgent[1]), patterns[i])

UserAgentSome(attributes, patterns) ==
    \E i \in 1..Len(patterns) :
        StrIncludes(ToLowerCase(attributes.userAgent[1]), ToLowerCase(patterns[i]))

matchesTargetingRules(attributes, rules) ==
    IF rules = Nothing \/ ObjectKeys(rules[1]) = {} THEN TRUE
    ELSE LET r == rules[1]
         IN  IF /\ HasEntries(r.country)
                /\ \/ ~TruthyStr(attributes.country)
                   \/ ~Includes(r.country[1], attributes.country[1])
             THEN FALSE
             ELSE IF /\ HasEntries(r.deviceType)
                     /\ \/ ~TruthyStr(attributes.deviceType)
                        \/ ~Includes(r.deviceType[1], attributes.deviceType[1])
             THEN FALSE
             ELSE IF HasEntries(r.userAgent) /\ ~TruthyCodes(attributes.userAgent)
             THEN FALSE
             ELSE IF HasEntries(r.userAgent) /\ ~UserAgentSome(attributes, r.userAgent[1])
             THEN FALSE
             ELSE IF /\ r.customProperties # Nothing
                     /\ ~CustomPropertiesLoop(attributes, r.customProperties[1], 1)
             THEN FALSE
             ELSE TRUE

\* ------------------------------------------------------------------------
\* IEEE-754 doubles, as far as the variant selector needs them.  A double is
\* [neg, m, e] with value (-1)^neg * m * 2^e; the 53-bit mantissa m is kept
\* as three 18-bit limbs <<m1, m2, m3>>, m1 the most significant, and is
\* <<0, 0, 0>> for zero.  Rounding is to nearest, ties to even.
\* ------------------------------------------------------------------------
DLimb == 2 ^ 18

Dbl(neg, m, e) == [neg |-> neg, m |-> m, e |-> e]

DblZero == Dbl(FALSE, <<0, 0, 0>>, 0)

\* the number of binary digits of an integer 0 <= n < 2^30
BitLen(n) == CHOOSE k \in 0..30 : n < 2 ^ k /\ (k = 0 \/ n >= 2 ^ (k - 1))

\* the double nearest to q * 2^e (+ a fraction of the last place when sticky),
\* where q = <<q1, q2, q3>> is a 54-bit integer with its top bit set
RoundToDouble(neg, q, e, sticky) ==
    LET half == q[3] % 2 = 1
        odd == (q[3] \div 2) % 2 = 1
        up == half /\ (sticky \/ odd)
        m3 == ((q[2] % 2) * (2 ^ 17)) + (q[3] \div 2) + (IF up THEN 1 ELSE 0)
        m2 == ((q[1] % 2) * (2 ^ 17)) + (q[2] \div 2) + (m3 \div DLimb)
        m1 == (q[1] \div 2) + (m2 \div DLimb)
    IN  IF m1 = 2 ^ 17
        THEN Dbl(neg, <<2 ^ 16, 0, 0>>, e + 2)
        ELSE Dbl(neg, <<m1, m2 % DLimb, m3 % DLimb>>, e + 1)

\* n / d as a double, for integers 0 <= n < d < 2^7: the long division of
\* n * 2^(j + 53) by d, limb by limb, with j chosen so that 1 <= n * 2^j / d < 2
DblDivide(n, d) ==
    IF n = 0 THEN DblZero
    ELSE LET j == CHOOSE k \in 1..7 : n * (2 ^ k) >= d /\ n * (2 ^ (k - 1)) < d
             top == n * (2 ^ j) * (2 ^ 17)
             q1 == top \div d
             r1 == top % d
             q2 == (r1 * DLimb) \div d
             r2 == (r1 * DLimb) % d
             q3 == (r2 * DLimb) \div d
             r3 == (r2 * DLimb) % d
         IN  RoundToDouble(FALSE, <<q1, q2, q3>>, 0 - (j + 53), r3 # 0)

\* x * t as a double, for a double x and an integer |t| < 2^11: the exact
\* product m * 2|t| in four limbs, cut back to 54 bits and rounded
DblTimesInt(x, t) ==
    IF x.m = <<0, 0, 0>> \/ t = 0 THEN DblZero
    ELSE LET t2 == 2 * (IF t < 0 THEN 0 - t ELSE t)
             v3 == x.m[3] * t2
             v2 == (x.m[2] * t2) + (v3 \div DLimb)
             v1 == (x.m[1] * t2) + (v2 \div DLimb)
             l0 == v1 \div DLimb
             l1 == v1 % DLimb
             l2 == v2 % DLimb
             l3 == v3 % DLimb
             s == BitLen(l0)
             cut == 2 ^ s
             keep == 2 ^ (18 - s)
             q == <<(l1 \div cut) + ((l0 % cut) * keep),
                    (l2 \div cut) + ((l1 % cut) * keep),
                    (l3 \div cut) + ((l2 % cut) * keep)>>
         IN  RoundToDouble(x.neg # (t < 0), q, (x.e - 1) + s, l3 % cut # 0)

\* |x| <= c for a nonzero double x and an integer 0 < c < 2^17: c * 2^(-e)
\* has BitLen(c) - e bits and the mantissa has 53
MagnitudeLeq(x, c) ==
    LET bits == BitLen(c) - x.e
    IN  IF bits # 53 THEN bits > 53
        ELSE LET c1 == c * (2 ^ ((0 - x.e) - 36))
             IN  x.m[1] < c1 \/ (x.m[1] = c1 /\ x.m[2] = 0 /\ x.m[3] = 0)

\* |x| >= c, likewise
MagnitudeGeq(x, c) ==
    LET bits == BitLen(c) - x.e
    IN  IF bits # 53 THEN bits < 53
        ELSE x.m[1] >= c * (2 ^ ((0 - x.e) - 36))

\* x <= c for a double x and an integer |c| < 2^17
DblLeqInt(x, c) ==
    IF x.m = <<0, 0, 0>> THEN 0 <= c
    ELSE IF x.neg THEN c >= 0 \/ MagnitudeGeq(x, 0 - c)
    ELSE c > 0 /\ MagnitudeLeq(x, c)

\* ------------------------------------------------------------------------
\* Variant selector
\* ------------------------------------------------------------------------
\* What a call that may throw yields: the value returned, or the error.
\* `at` names the return statement that produced the value.
Returned(value, at) == [threw |-> FALSE, error |-> "", value |-> Some(value), at |-> at]

Threw(message) == [threw |-> TRUE, error |-> message, value |-> Nothing, at |-> "throw"]

Variant(key, value, weight) == [key |-> key, value |-> value, weight |-> weight]

\* v.weight || 0
WeightOrZero(v) == IF v.weight = Nothing THEN 0 ELSE v.weight[1]

\* variants.reduce((sum, v) => sum + (v.weight || 0), 0), from variant i on
RECURSIVE ReduceWeights(_, _, _)
ReduceWeights(variants, i, sum) ==
    IF i > Len(variants) THEN sum
    ELSE ReduceWeights(variants, i + 1, sum + WeightOrZero(variants[i]))

\* target <= currentWeight
TargetReached(target, currentWeight) == DblLeqInt(target, currentWeight)

\* the loop over the variants from variant i on: the index of the variant it
\* returns, or 0 when it ends without returning
RECURSIVE WeightedWalk(_, _, _, _)
WeightedWalk(variants, target, i, currentWeight) ==
    IF i > Len(variants) THEN 0
    ELSE LET weight == currentWeight + WeightOrZero(variants[i])
         IN  IF TargetReached(target, weight) THEN i
             ELSE WeightedWalk(variants, target, i + 1, weight)

\* EqualDistribution that always takes the first variant
EqualDistribution_First(variants, bucket) == variants[1]

\* variants[bucket % variants.length]
EqualDistribution(variants, bucket) == variants[(bucket % Len(variants)) + 1]

\* selectVariant from its second statement on: variants is not empty
SelectAmong(variants, bucket) ==
    IF Len(variants) = 1 THEN Returned(variants[1], "single")
    ELSE LET hasWeights == \E i \in 1..Len(variants) : variants[i].weight # Nothing
             totalWeight == ReduceWeights(variants, 1, 0)
             target == DblTimesInt(DblDivide(bucket, 100), totalWeight)
             found == WeightedWalk(variants, target, 1, 0)
         IN  IF hasWeights /\ totalWeight = 0
             THEN Returned(EqualDistribution(variants, bucket), "zeroTotal")
             ELSE IF hasWeights /\ found # 0
             THEN Returned(variants[found], "walk")
             ELSE Returned(EqualDistribution(variants, bucket), "equal")

\* selectVariant without the check for an empty list: variants[NaN] is undefined
selectVariant_NoGuard(variants, bucket) ==
    IF Len(variants) = 0 THEN Returned(Variant("undefined", "undefined", Nothing), "equal")
    ELSE SelectAmong(variants, bucket)

selectVariant(variants, bucket) ==
    IF Len(variants) = 0 THEN Threw("No variants available")
    ELSE SelectAmong(variants, bucket)

\* ------------------------------------------------------------------------
\* Flag evaluator (the edge route)
\* ------------------------------------------------------------------------
Flag(key, variants, rules, rolloutPct, salt, isActive, applicationId) ==
    [key |-> key, variants |-> variants, rules |-> rules, rolloutPct |-> rolloutPct,
     salt |-> salt, isActive |-> isActive, applicationId |-> applicationId]

Result(flagKey, variant, value, isActive, reason) ==
    [flagKey |-> flagKey, variant |-> variant, value |-> value,
     isActive |-> isActive, reason |-> reason]

\* flag.variants[0] || { key: 'control', value: false }
DefaultVariant(flag) ==
    IF Len(flag.variants) > 0 THEN flag.variants[1]
    ELSE Variant("control", "b:false", Nothing)

\* OutOfRollout that lets the user whose bucket equals rolloutPct in
OutOfRollout_Inclusive(bucket, flag) == bucket > flag.rolloutPct

\* bucket >= flag.rolloutPct
OutOfRollout(bucket, flag) == bucket >= flag.rolloutPct

\* evaluateFlag with the rollout check ahead of the targeting check
evaluateFlag_RolloutFirst(flag, userKey, attributes) ==
    LET defaultVariant == DefaultVariant(flag)
        bucket == getBucket(userKey, flag.salt)
        selected == selectVariant(flag.variants, bucket)
    IN  IF ~flag.isActive
        THEN Returned(Result(flag.key, defaultVariant.key, defaultVariant.value,
                             FALSE, "flag_disabled"), "disabled")
        ELSE IF OutOfRollout(bucket, flag)
        THEN Returned(Result(flag.key, defaultVariant.key, defaultVariant.value,
                             FALSE, "not_in_rollout"), "rollout")
        ELSE IF ~matchesTargetingRules(attributes, flag.rules)
        THEN Returned(Result(flag.key, defaultVariant.key, defaultVariant.value,
                             FALSE, "targeting_rules_not_met"), "targeting")
        ELSE IF selected.threw THEN Threw(selected.error)
        ELSE Returned(Result(flag.key, selected.value[1].key, selected.value[1].value,
                             TRUE, "evaluated"), "evaluated")

evaluateFlag(flag, userKey, attributes) ==
    LET defaultVariant == DefaultVariant(flag)
        bucket == getBucket(userKey, flag.salt)
        selected == selectVariant(flag.variants, bucket)
    IN  IF ~flag.isActive
        THEN Returned(Result(flag.key, defaultVariant.key, defaultVariant.value,
                             FALSE, "flag_disabled"), "disabled")
        ELSE IF ~matchesTargetingRules(attributes, flag.rules)
        THEN Returned(Result(flag.key, defaultVariant.key, defaultVariant.value,
                             FALSE, "targeting_rules_not_met"), "targeting")
        ELSE IF OutOfRollout(bucket, flag)
        THEN Returned(Result(flag.key, defaultVariant.key, defaultVariant.value,
                             FALSE, "not_in_rollout"), "rollout")
        ELSE IF selected.threw THEN Threw(selected.error)
        ELSE Returned(Result(flag.key, selected.value[1].key, selected.value[1].value,
                             TRUE, "evaluated"), "evaluated")

\* ------------------------------------------------------------------------
\* The bucketer called on its own
\* ------------------------------------------------------------------------
callVars == <<callArgs, callRet, callPc>>

clientVars == <<userAttributes, fetchedWith, refreshed>>

sdkVars == <<cache, sdkCall, inflight, exposures, clientVars>>

auditVars == <<disabledBy, asked, handlers>>

statsVars == <<hasSpare, spare, sampling, experiments, jobResponse>>

serviceVars ==
    <<now, flags, apiKeys, redis, response, pinned, sdkVars, auditVars, statsVars>>

vars == <<callVars, serviceVars>>

\* a normal value of the sampler, named by the computation that drew the
\* uniform values it is made from, the pair of that computation, and the half
Normal(computation, pair, half) ==
    [computation |-> computation, pair |-> pair, half |-> half]

\* let spare: number = 0
SpareInitial == Normal(0, 0, "zero")

\* the experiment engine is not in use
StatsOff ==
    /\ hasSpare = FALSE
    /\ spare = SpareInitial
    /\ sampling = None
    /\ experiments = <<>>
    /\ jobResponse = None

\* the flag service is not running
FlagServiceOff ==
    /\ now = 0
    /\ flags = <<>>
    /\ apiKeys = <<>>
    /\ redis = <<>>
    /\ response = None
    /\ pinned = Nothing
    /\ cache = <<>>
    /\ sdkCall = None
    /\ inflight = Nothing
    /\ exposures = <<>>
    /\ userAttributes = None
    /\ fetchedWith = <<>>
    /\ refreshed = Nothing
    /\ disabledBy = <<>>
    /\ asked = Nothing
    /\ handlers = <<>>

\* a library function is called on its own: no service is running
ServiceOff == FlagServiceOff /\ StatsOff

InitBucket ==
    /\ callArgs \in [userKey : BucketKeys, salt : BucketSalts]
    /\ callRet = None
    /\ callPc = "ready"
    /\ ServiceOff

CallGetBucket ==
    /\ callPc = "ready"
    /\ callRet' = [fn |-> "getBucket",
                   bucket |-> getBucket(callArgs.userKey, callArgs.salt)]
    /\ callPc' = "done"
    /\ UNCHANGED <<callArgs, serviceVars>>

CallGetBucketSimple ==
    /\ callPc = "ready"
    /\ callRet' = [fn |-> "getBucketSimple",
                   bucket |-> getBucketSimple(callArgs.userKey, callArgs.salt)]
    /\ callPc' = "done"
    /\ UNCHANGED <<callArgs, serviceVars>>

NextBucket == CallGetBucket \/ CallGetBucketSimple

SpecBucket == InitBucket /\ [][NextBucket]_vars

\* ------------------------------------------------------------------------
\* The targeting matcher called on its own
\* ------------------------------------------------------------------------
UA_Moz == <<77, 111, 122>>     \* "Moz"
UA_bot == <<98, 111, 116>>     \* "bot"
Pat_MOZ == <<77, 79, 90>>      \* "MOZ"
Pat_BOT == <<66, 79, 84>>      \* "BOT"
Pat_x == <<120>>               \* "x"

NoProps == [k \in {} |-> Undef]
Props_pro == [k \in {"plan"} |-> Scalar("s:pro")]
Props_free == [k \in {"plan"} |-> Scalar("s:free")]
Props_list == [k \in {"plan"} |-> Arr(<<"s:pro">>)]
Props_proBeta == [k \in {"plan", "beta"} |->
                    IF k = "plan" THEN Scalar("s:pro") ELSE Scalar("b:true")]
Props_betaText == [k \in {"beta"} |-> Scalar("s:true")]

Entry(key, value) == [key |-> key, value |-> value]

Rule_pro == <<Entry("plan", Scalar("s:pro"))>>
Rule_proOrTeam == <<Entry("plan", Arr(<<"s:pro", "s:team">>))>>
Rule_emptyList == <<Entry("plan", Arr(<<>>))>>
Rule_proBeta == <<Entry("plan", Scalar("s:pro")), Entry("beta", Scalar("b:true"))>>

Attributes(country, deviceType, userAgent, customProperties) ==
    [userId |-> Key_u1, country |-> country, deviceType |-> deviceType,
     userAgent |-> userAgent, customProperties |-> customProperties]

Rules(country, deviceType, userAgent, customProperties) ==
    Some([country |-> country, deviceType |-> deviceType,
          userAgent |-> userAgent, customProperties |-> customProperties])

TargetAttributes ==
    {Attributes(c, d, u, p) :
        c \in {Nothing, Some(""), Some("US"), Some("DE")},
        d \in {Nothing, Some("mobile"), Some("desktop")},
        u \in {Nothing, Some(<<>>), Some(UA_Moz), Some(UA_bot)},
        p \in {Nothing, Some(NoProps), Some(Props_pro), Some(Props_free),
               Some(Props_list), Some(Props_proBeta), Some(Props_betaText)}}

TargetRules ==
    {Nothing} \cup
    {Rules(c, d, u, p) :
        c \in {Nothing, Some(<<>>), Some(<<"US", "CA">>)},
        d \in {Nothing, Some(<<"mobile">>)},
        u \in {Nothing, Some(<<Pat_MOZ>>), Some(<<Pat_x, Pat_BOT>>), Some(<<<<>>>>)},
        p \in {Nothing, Some(<<>>), Some(Rule_pro), Some(Rule_proOrTeam),
               Some(Rule_emptyList), Some(Rule_proBeta)}}

InitTargeting ==
    /\ callArgs \in [attributes : TargetAttributes, rules : TargetRules]
    /\ callRet = None
    /\ callPc = "ready"
    /\ ServiceOff

CallMatchesTargetingRules ==
    /\ callPc = "ready"
    /\ callRet' = [fn |-> "matchesTargetingRules",
                   matches |-> matchesTargetingRules(callArgs.attributes, callArgs.rules)]
    /\ callPc' = "done"
    /\ UNCHANGED <<callArgs, serviceVars>>

NextTargeting == CallMatchesTargetingRules

SpecTargeting == InitTargeting /\ [][NextTargeting]_vars

\* ------------------------------------------------------------------------
\* The variant selector called on its own
\* ------------------------------------------------------------------------
MaxVariants == 3

VariantKeys == <<"control", "treatment", "v3", "v4", "v5">>
VariantValues == <<"b:false", "b:true", "s:blue", "s:green", "n:5">>

WeightChoices == {Nothing, Some(0), Some(7), Some(18), Some(0 - 7)}

\* the variant lists of length n: the i-th variant has the i-th key and value
VariantLists(n) ==
    {[i \in 1..n |-> Variant(VariantKeys[i], VariantValues[i], w[i])] :
        w \in [1..n -> WeightChoices]}

SelectVariantLists == UNION {VariantLists(n) : n \in 0..MaxVariants}

Buckets == 0..99

InitSelect ==
    /\ callArgs \in [variants : SelectVariantLists, bucket : Buckets]
    /\ callRet = None
    /\ callPc = "ready"
    /\ ServiceOff

CallSelectVariant ==
    /\ callPc = "ready"
    /\ callRet' = selectVariant(callArgs.variants, callArgs.bucket)
    /\ callPc' = "done"
    /\ UNCHANGED <<callArgs, serviceVars>>

NextSelect == CallSelectVariant

SpecSelect == InitSelect /\ [][NextSelect]_vars

\* ------------------------------------------------------------------------
\* The flag evaluator called on its own
\* ------------------------------------------------------------------------
Key_u96 == <<117, 57, 54>>         \* "u96": bucket 0 with salt "x"
Key_u288 == <<117, 50, 56, 56>>    \* "u288": bucket 99 with salt "x"
Key_u11 == <<117, 49, 49>>         \* "u11": bucket 28 with salt "x"

EvalUserKeys == {Key_u1, Key_u96, Key_u288, Key_u11}

Attrs_none == Attributes(Nothing, Nothing, Nothing, Nothing)
Attrs_usPro == Attributes(Some("US"), Some("mobile"), Some(UA_Moz), Some(Props_pro))
Attrs_deFree == Attributes(Some("DE"), Some("desktop"), Nothing, Some(Props_free))

EvalAttributes == {Attrs_none, Attrs_usPro, Attrs_deFree}

Rules_us == Rules(Some(<<"US", "CA">>), Nothing, Nothing, Nothing)
Rules_pro == Rules(Nothing, Nothing, Some(<<Pat_MOZ>>), Some(Rule_pro))

EvalRules == {Nothing, Rules_us, Rules_pro}

Variants_single == <<Variant("control", "b:false", Nothing)>>
Variants_onOff == <<Variant("control", "b:false", Nothing),
                    Variant("treatment", "b:true", Nothing)>>
Variants_weighted == <<Variant("control", "b:false", Some(7)),
                       Variant("treatment", "b:true", Some(18))>>

EvalVariants == {<<>>, Variants_single, Variants_onOff, Variants_weighted}

RolloutPcts == 0..100

EvalFlags ==
    {Flag("f1", v, r, pct, salt, active, Nothing) :
        v \in EvalVariants, r \in EvalRules, pct \in RolloutPcts,
        salt \in {Salt_x, Salt_tf}, active \in BOOLEAN}

InitEval ==
    /\ callArgs \in [flag : EvalFlags, userKey : EvalUserKeys, attributes : EvalAttributes]
    /\ callRet = None
    /\ callPc = "ready"
    /\ ServiceOff

CallEvaluateFlag ==
    /\ callPc = "ready"
    /\ callRet' = evaluateFlag(callArgs.flag, callArgs.userKey, callArgs.attributes)
    /\ callPc' = "done"
    /\ UNCHANGED <<callArgs, serviceVars>>

NextEval == CallEvaluateFlag

SpecEval == InitEval /\ [][NextEval]_vars

\* ------------------------------------------------------------------------
\* The flag evaluator called again and again
\* ------------------------------------------------------------------------
RepeatFlags ==
    {Flag("f1", Variants_weighted, Rules_us, pct, Salt_x, active, Nothing) :
        pct \in {0, 50, 100}, active \in BOOLEAN}
    \cup {Flag("f2", Variants_onOff, Nothing, 100, Salt_tf, TRUE, Nothing)}

RepeatInputs ==
    [flag : RepeatFlags, userKey : {Key_u96, Key_u288},
     attributes : {Attrs_usPro, Attrs_deFree}]

\* a remembered call: its arguments, its result, and whether a call with
\* other arguments has been made since
Remembered(args, ret, otherSince) ==
    [args |-> args, ret |-> ret, otherSince |-> otherSince]

InitRepeat ==
    /\ callArgs \in RepeatInputs
    /\ callRet = None
    /\ callPc = "ready"
    /\ ServiceOff

\* one more call; the call before it may be remembered
CallEvaluateFlagAgain ==
    \E args \in RepeatInputs :
        /\ callArgs' = IF callPc = "ready" THEN callArgs ELSE args
        /\ callRet' = evaluateFlag(callArgs'.flag, callArgs'.userKey, callArgs'.attributes)
        /\ callPc' = "done"
        /\ \/ /\ pinned # Nothing
              /\ pinned' = Some([pinned[1] EXCEPT
                                   !.otherSince = @ \/ callArgs' # pinned[1].args])
           \/ /\ pinned = Nothing
              /\ pinned' = Nothing
           \/ /\ pinned = Nothing
              /\ callPc = "done"
              /\ pinned' = Some(Remembered(callArgs, callRet, callArgs' # callArgs))
        /\ UNCHANGED <<now, flags, apiKeys, redis, response, sdkVars, auditVars, statsVars>>

NextRepeat == CallEvaluateFlagAgain

SpecRepeat == InitRepeat /\ [][NextRepeat]_vars

\* ------------------------------------------------------------------------
\* The service: clock, database tables, Redis
\* ------------------------------------------------------------------------
\* redis.set(..., { ex: 300 }): seconds a Redis entry lives
RedisEx == 300

\* the clock advances in steps of one Redis lifetime
TickMs == RedisEx * 1000

MaxTicks == 1

\* the flags of the database, in the order of their creation
FlagIds == <<"f1", "f2", "f3">>

Flag_f1 == Flag("f1", Variants_weighted, Rules_us, 50, Salt_x, FALSE, Nothing)
Flag_f2 == Flag("f2", Variants_onOff, Nothing, 100, Salt_tf, FALSE, Some("app2"))

InitialFlags == [id \in {"f1", "f2"} |-> IF id = "f1" THEN Flag_f1 ELSE Flag_f2]

\* the ids of the flags stored, in the order of their creation
StoredIds(table) == SelectSeq(FlagIds, LAMBDA id : id \in DOMAIN table)

\* prisma.flag.findMany({ orderBy: { createdAt: 'desc' } })
FindManyNewestFirst(table) ==
    [i \in 1..Len(StoredIds(table)) |->
        table[StoredIds(table)[Len(StoredIds(table)) + 1 - i]]]

\* prisma.flag.findMany({ where: { isActive: true } }), in creation order
FindManyActive(table) ==
    SelectSeq([i \in 1..Len(StoredIds(table)) |-> table[StoredIds(table)[i]]],
              LAMBDA f : f.isActive)

\* sha256Hash: a digest that differs for different keys
sha256Hash(text) == <<"sha256", text>>

ApiKeyRow(applicationId, isActive, expiresAt) ==
    [applicationId |-> applicationId, isActive |-> isActive,
     expiresAt |-> expiresAt, lastUsedAt |-> Nothing]

\* k1: a live key of application app1; kOff: a deactivated key; kOld: a key
\* whose expiry date has passed
InitialApiKeys ==
    [h \in {sha256Hash("k1"), sha256Hash("kOff"), sha256Hash("kOld")} |->
        IF h = sha256Hash("k1") THEN ApiKeyRow("app1", TRUE, Nothing)
        ELSE IF h = sha256Hash("kOff") THEN ApiKeyRow("app1", FALSE, Nothing)
        ELSE ApiKeyRow("app2", TRUE, Some(0 - 1))]

\* ApplicationManager.validateApiKey: the application context, or the error
\* thrown, and the API key table it leaves
validateApiKey(table, key, t) ==
    LET keyHash == sha256Hash(key)
    IN  IF keyHash \notin DOMAIN table \/ ~table[keyHash].isActive
        THEN [threw |-> TRUE, error |-> "Invalid or inactive API key",
              context |-> Nothing, table |-> table]
        ELSE IF table[keyHash].expiresAt # Nothing /\ table[keyHash].expiresAt[1] < t
        THEN [threw |-> TRUE, error |-> "API key has expired",
              context |-> Nothing, table |-> table]
        ELSE [threw |-> FALSE, error |-> "",
              context |-> Some([applicationId |-> table[keyHash].applicationId]),
              table |-> [table EXCEPT ![keyHash].lastUsedAt = Some(t)]]

\* CACHE_KEYS.flag(key), CACHE_KEYS.allFlags()
FlagCacheKey(key) == <<"flag", key>>

AllFlagsCacheKey == <<"flags", "all">>

EmptyRedis ==
    [k \in {FlagCacheKey("f1"), FlagCacheKey("f2"), FlagCacheKey("f3"),
            AllFlagsCacheKey} |-> Nothing]

\* redis.set(key, value, { ex: 300 }) at time t
RedisSet(store, key, value, t) ==
    [store EXCEPT ![key] = Some([value |-> value, expiresAt |-> t + RedisEx * 1000])]

\* redis.get(key) at time t: the value, or null once the entry has expired
RedisGet(store, key, t) ==
    IF key \in DOMAIN store /\ store[key] # Nothing /\ t < store[key][1].expiresAt
    THEN Some(store[key][1].value)
    ELSE Nothing

\* for (const flag of flags) await redis.set(CACHE_KEYS.flag(flag.key), flag, ...)
RECURSIVE RedisSetEach(_, _, _, _)
RedisSetEach(store, list, i, t) ==
    IF i > Len(list) THEN store
    ELSE RedisSetEach(RedisSet(store, FlagCacheKey(list[i].key), list[i], t), list, i + 1, t)

updateFlagCache(table, store, t) ==
    LET active == FindManyActive(table)
    IN  RedisSetEach(RedisSet(store, AllFlagsCacheKey, active, t), active, 1, t)

\* ------------------------------------------------------------------------
\* The edge endpoint: GET /api/edge/flags
\* ------------------------------------------------------------------------
Request(authorization, userKey, flagKeys, country, customProperties) ==
    [authorization |-> authorization, userKey |-> userKey, flagKeys |-> flagKeys,
     country |-> country, deviceType |-> Nothing, userAgent |-> Some(UA_Moz),
     customProperties |-> customProperties]

Authorization(scheme, credentials) ==
    Some([scheme |-> scheme, credentials |-> credentials])

\* a JSON text: the value it encodes, or a text that does not parse
JsonText(value) == [valid |-> TRUE, value |-> value]

BrokenJson == [valid |-> FALSE, value |-> NoProps]

\* no request has been answered yet
NoResponse == [status |-> 0, error |-> None, flags |-> Nothing, evals |-> <<>>]

ErrorResponse(status, error) ==
    [status |-> status, error |-> error, flags |-> Nothing, evals |-> <<>>]

\* what the loops of the handler have pushed so far; evals remembers, for
\* each call of evaluateFlag, its arguments and its result
Pushed(results, evals) == [threw |-> FALSE, results |-> results, evals |-> evals]

Evaluation(flag, userKey, attributes, result) ==
    [flag |-> flag, userKey |-> userKey, attributes |-> attributes, result |-> result]

\* the access check that lets every application through
OtherApplication_Never(context, flag) == FALSE

\* applicationContext && flag.applicationId &&
\*     flag.applicationId !== applicationContext.applicationId
OtherApplication(context, flag) ==
    /\ context # Nothing
    /\ TruthyStr(flag.applicationId)
    /\ flag.applicationId[1] # context[1].applicationId

\* results.push(result), or the error evaluateFlag threw
PushResult(acc, flag, userKey, attributes, r) ==
    IF r.threw THEN [acc EXCEPT !.threw = TRUE]
    ELSE Pushed(Append(acc.results, r.value[1]),
                Append(acc.evals, Evaluation(flag, userKey, attributes, r.value[1])))

\* const result = evaluateFlag(flag, userKey, attributes); results.push(result)
PushEvaluation(acc, flag, userKey, attributes) ==
    PushResult(acc, flag, userKey, attributes, evaluateFlag(flag, userKey, attributes))

\* for (const flag of allFlags), from flag i on
RECURSIVE EvaluateAll(_, _, _, _, _, _)
EvaluateAll(allFlags, i, context, userKey, attributes, acc) ==
    IF acc.threw \/ i > Len(allFlags) THEN acc
    ELSE IF OtherApplication(context, allFlags[i])
    THEN EvaluateAll(allFlags, i + 1, context, userKey, attributes, acc)
    ELSE EvaluateAll(allFlags, i + 1, context, userKey, attributes,
                     PushEvaluation(acc, allFlags[i], userKey, attributes))

\* ControlResult that marks the result active
ControlResult_Active(flagKey, reason) == Result(flagKey, "control", "b:false", TRUE, reason)

\* { flagKey, variant: 'control', value: false, isActive: false, reason }
ControlResult(flagKey, reason) == Result(flagKey, "control", "b:false", FALSE, reason)

\* for (const flagKey of flagKeys), from key i on
RECURSIVE EvaluateByKey(_, _, _, _, _, _, _, _)
EvaluateByKey(flagKeys, i, store, t, context, userKey, attributes, acc) ==
    IF acc.threw \/ i > Len(flagKeys) THEN acc
    ELSE LET flag == RedisGet(store, FlagCacheKey(flagKeys[i]), t)
             next == IF flag = Nothing
                     THEN Pushed(Append(acc.results,
                                        ControlResult(flagKeys[i], "flag_not_found")),
                                 acc.evals)
                     ELSE IF OtherApplication(context, flag[1])
                     THEN Pushed(Append(acc.results,
                                        ControlResult(flagKeys[i], "access_denied")),
                                 acc.evals)
                     ELSE PushEvaluation(acc, flag[1], userKey, attributes)
         IN  EvaluateByKey(flagKeys, i + 1, store, t, context, userKey, attributes, next)

\* the end of the handler: the 200 response, or the 500 of the catch block
Respond(pushed, table) ==
    IF pushed.threw
    THEN [response |-> ErrorResponse(500, "Internal server error"), table |-> table]
    ELSE [response |-> [status |-> 200, error |-> None,
                        flags |-> Some(pushed.results), evals |-> pushed.evals],
          table |-> table]

\* the handler: its response and the API key table it leaves
GET(request, store, table, t) ==
    LET bearer == /\ request.authorization # Nothing
                  /\ request.authorization[1].scheme = "Bearer "
        validated == validateApiKey(table, request.authorization[1].credentials, t)
        context == IF bearer THEN validated.context ELSE Nothing
        tableAfter == IF bearer THEN validated.table ELSE table
        flagKeys == IF request.flagKeys = Nothing THEN <<>> ELSE request.flagKeys[1]
        userKey == request.userKey[1]
        attributes ==
            [userId |-> userKey,
             country |-> IF TruthyStr(request.country) THEN request.country ELSE Nothing,
             deviceType |-> IF TruthyStr(request.deviceType) THEN request.deviceType
                            ELSE Nothing,
             userAgent |-> IF TruthyCodes(request.userAgent) THEN request.userAgent
                           ELSE Nothing,
             customProperties |->
                 IF request.customProperties # Nothing /\ request.customProperties[1].valid
                 THEN Some(request.customProperties[1].value)
                 ELSE Nothing]
        allFlags == RedisGet(store, AllFlagsCacheKey, t)
    IN  IF bearer /\ validated.threw
        THEN [response |-> ErrorResponse(401, "Invalid API key"), table |-> table]
        ELSE IF ~TruthyCodes(request.userKey)
        THEN [response |-> ErrorResponse(400, "userKey is required"), table |-> tableAfter]
        ELSE IF Len(flagKeys) = 0
        THEN IF allFlags = Nothing THEN Respond(Pushed(<<>>, <<>>), tableAfter)
             ELSE Respond(EvaluateAll(allFlags[1], 1, context, userKey, attributes,
                                      Pushed(<<>>, <<>>)),
                          tableAfter)
        ELSE Respond(EvaluateByKey(flagKeys, 1, store, t, context, userKey, attributes,
                                   Pushed(<<>>, <<>>)),
                     tableAfter)

\* ------------------------------------------------------------------------
\* The SDK client: FlagshipClient
\* ------------------------------------------------------------------------
\* ttl: 300000, milliseconds
CacheTtlMs == 300000

MaxExposures == 2

\* the client's user key, attributes and API key
SdkUserKey == Key_u96

SdkUserAttributes ==
    [userId |-> Key_u96, country |-> Some("US"), deviceType |-> Some("mobile"),
     userAgent |-> Some(UA_Moz), customProperties |-> Some(Props_pro)]

SdkApiKey == Some("k1")

\* the flags the application asks for
SdkFlagKeys == {"f1", "f2"}

EmptyCache == [k \in SdkFlagKeys |-> Nothing]

\* cacheFlag; the cache has a place for each key the application asks for
cacheFlag(entries, flagKey, result, t) ==
    IF flagKey \in DOMAIN entries
    THEN [entries EXCEPT ![flagKey] =
              Some([result |-> result, timestamp |-> t, ttl |-> CacheTtlMs])]
    ELSE entries

\* getCachedFlag with an entry expiring as its lifetime is reached
getCachedFlag_Exclusive(entries, flagKey, t) ==
    IF entries[flagKey] = Nothing
    THEN [result |-> Nothing, cache |-> entries]
    ELSE IF t >= entries[flagKey][1].timestamp + entries[flagKey][1].ttl
    THEN [result |-> Nothing, cache |-> [entries EXCEPT ![flagKey] = Nothing]]
    ELSE [result |-> Some(entries[flagKey][1].result), cache |-> entries]

\* getCachedFlag: the result it returns, or none, and the cache it leaves
getCachedFlag(entries, flagKey, t) ==
    IF entries[flagKey] = Nothing
    THEN [result |-> Nothing, cache |-> entries]
    ELSE IF t > entries[flagKey][1].timestamp + entries[flagKey][1].ttl
    THEN [result |-> Nothing, cache |-> [entries EXCEPT ![flagKey] = Nothing]]
    ELSE [result |-> Some(entries[flagKey][1].result), cache |-> entries]

\* the request getFlags sends for one flag key
SdkRequest(flagKey) ==
    [authorization |-> IF SdkApiKey # Nothing
                       THEN Authorization("Bearer ", SdkApiKey[1]) ELSE Nothing,
     userKey |-> Some(SdkUserKey),
     flagKeys |-> Some(<<flagKey>>),
     country |-> IF TruthyStr(userAttributes.country)
                 THEN userAttributes.country ELSE Some(""),
     deviceType |-> IF TruthyStr(userAttributes.deviceType)
                    THEN userAttributes.deviceType ELSE Some(""),
     userAgent |-> userAttributes.userAgent,
     customProperties |->
         Some(JsonText(IF userAttributes.customProperties # Nothing
                       THEN userAttributes.customProperties[1] ELSE NoProps))]

\* the call of getFlag under way: where it stands, what it returned, which
\* result it fetched and which exposure it issued, if any, and what its
\* cache lookup found ("hit", "expired" or "absent")
Call(pc, flagKey, ret, fetched, exposure, lookup) ==
    [pc |-> pc, flagKey |-> flagKey, ret |-> ret, fetched |-> fetched,
     exposure |-> exposure, lookup |-> lookup]

NoCall == Call("idle", "", Nothing, Nothing, 0, "none")

\* the attributes the entries of the cache were requested with, after a step
\* that leaves the cache as entriesAfter and caches what was requested with
\* attributes
Tagged(entriesAfter, attributes) ==
    [k \in DOMAIN entriesAfter |->
        IF entriesAfter[k] = Nothing THEN Nothing
        ELSE IF entriesAfter[k] = cache[k] THEN fetchedWith[k]
        ELSE Some(attributes)]

Exposure(flagKey, variant, status) ==
    [userKey |-> SdkUserKey, flagKey |-> flagKey, variant |-> variant, status |-> status]

\* for (const flag of data.flags || []) this.cacheFlag(flag.flagKey, flag),
\* from result i on
RECURSIVE CacheEach(_, _, _, _)
CacheEach(entries, results, i, t) ==
    IF i > Len(results) THEN entries
    ELSE CacheEach(cacheFlag(entries, results[i].flagKey, results[i], t), results, i + 1, t)

\* results[flagKey] after the loop: the last result with that key, or none
ResultFor(results, flagKey) ==
    LET at == {i \in 1..Len(results) : results[i].flagKey = flagKey}
    IN  IF at = {} THEN Nothing
        ELSE Some(results[CHOOSE i \in at : \A j \in at : j <= i])

\* fetchAndCacheFlag after getFlags returned no result for the key
DefaultResult(flagKey) == ControlResult(flagKey, "flag_not_found")

\* ExposureOutcomeOnCall that passes a failed exposure request on to the caller
ExposureOutcomeOnCall_Propagating(call, i, outcome) ==
    IF call.exposure = i /\ outcome = "failed"
    THEN [call EXCEPT !.pc = "rejected", !.ret = Nothing]
    ELSE call

\* what the end of exposure request i does to the call of getFlag: nothing,
\* logExposure is not awaited and its errors are caught
ExposureOutcomeOnCall(call, i, outcome) == call

\* ------------------------------------------------------------------------
\* The flag API: GET /api/flags, PATCH and POST /api/flags/:id
\* ------------------------------------------------------------------------
PatchBody(variants, rolloutPct, isActive) ==
    [variants |-> variants, rolloutPct |-> rolloutPct, isActive |-> isActive]

Max(a, b) == IF a >= b THEN a ELSE b

Min(a, b) == IF a <= b THEN a ELSE b

\* the data object of prisma.flag.update, applied to the stored flag
PatchedFlag(flag, body) ==
    [flag EXCEPT
        !.variants = IF body.variants # Nothing THEN body.variants[1] ELSE @,
        !.rolloutPct = IF body.rolloutPct # Nothing
                       THEN Max(0, Min(100, body.rolloutPct[1])) ELSE @,
        !.isActive = IF body.isActive # Nothing THEN body.isActive[1] ELSE @]

\* the PATCH requests made: a flag id and a body
PatchRequests ==
    {<<"f1", PatchBody(Nothing, Nothing, Some(TRUE))>>,
     <<"f1", PatchBody(Nothing, Nothing, Some(FALSE))>>,
     <<"f1", PatchBody(Nothing, Some(120), Nothing)>>,
     <<"f2", PatchBody(Nothing, Nothing, Some(TRUE))>>}

\* the requests made to the edge endpoint
EdgeRequests ==
    {Request(Nothing, Some(Key_u96), Nothing, Some("US"), Nothing),
     Request(Nothing, Some(Key_u96), Some(<<"f1", "f2">>), Some("US"), Nothing),
     Request(Nothing, Some(Key_u288), Some(<<"f1", "f2">>), Some(""), Nothing),
     Request(Authorization("Bearer ", "k1"), Some(Key_u96), Some(<<"f1", "f2">>),
             Some("US"), Some(JsonText(Props_pro))),
     Request(Authorization("Bearer ", "k1"), Some(Key_u288), Nothing, Some("US"), Nothing),
     Request(Authorization("Bearer ", "kOff"), Some(Key_u96), Nothing, Some("US"), Nothing),
     Request(Authorization("Bearer ", "kOld"), Some(Key_u96), Nothing, Some("US"), Nothing),
     Request(Authorization("Basic ", "k1"), Some(Key_u96), Some(<<"f9">>), Some("US"),
             Some(BrokenJson)),
     Request(Nothing, Nothing, Nothing, Some("US"), Nothing)}

InitService ==
    /\ now = 0
    /\ flags = InitialFlags
    /\ apiKeys = InitialApiKeys
    /\ redis = EmptyRedis
    /\ response = NoResponse
    /\ pinned = Nothing
    /\ cache = EmptyCache
    /\ sdkCall = NoCall
    /\ userAttributes = SdkUserAttributes
    /\ fetchedWith = [k \in SdkFlagKeys |-> Nothing]
    /\ refreshed = Nothing
    /\ inflight = Nothing
    /\ exposures = <<>>
    /\ disabledBy = [id \in {"f1", "f2"} |-> "none"]
    /\ asked = Nothing
    /\ handlers = <<>>
    /\ StatsOff

Init ==
    /\ callArgs = None
    /\ callRet = None
    /\ callPc = "off"
    /\ InitService

\* time passes
Tick ==
    /\ now < MaxTicks * TickMs
    /\ now' = now + TickMs
    /\ UNCHANGED <<callVars, flags, apiKeys, redis, response, pinned, auditVars, statsVars,
                   sdkVars>>

\* GET /api/flags
FlagsGET ==
    LET all == FindManyNewestFirst(flags)
    IN  /\ redis' = RedisSetEach(RedisSet(redis, AllFlagsCacheKey, all, now), all, 1, now)
        /\ UNCHANGED <<callVars, now, flags, apiKeys, response, pinned, auditVars,
                       statsVars, sdkVars>>

\* PATCH: prisma.flag.update, which throws when the flag is gone, and
\* updateFlagCache
PatchWrites(req) ==
    IF req[1] \in DOMAIN flags
    THEN /\ flags' = [flags EXCEPT ![req[1]] = PatchedFlag(@, req[2])]
         /\ redis' = updateFlagCache(flags', redis, now)
    ELSE UNCHANGED <<flags, redis>>

\* PATCH /api/flags/:id
FlagPATCH ==
    \E req \in PatchRequests :
        /\ PatchWrites(req)
        /\ UNCHANGED <<callVars, now, apiKeys, response, pinned, auditVars, statsVars,
                       sdkVars>>

\* DELETE: prisma.flag.delete, which throws when the flag is gone, and
\* updateFlagCache
DeleteWrites(id) ==
    IF id \in DOMAIN flags
    THEN /\ flags' = [i \in DOMAIN flags \ {id} |-> flags[i]]
         /\ redis' = updateFlagCache(flags', redis, now)
    ELSE UNCHANGED <<flags, redis>>

\* the kill switch that leaves the cache to updateFlagCache
KillCache_UpdateOnly(table, id, store, t) == updateFlagCache(table, store, t)

\* await redis.set(CACHE_KEYS.flag(flag.key), flag, { ex: 300 });
\* await updateFlagCache()
KillCache(table, id, store, t) ==
    updateFlagCache(table, RedisSet(store, FlagCacheKey(table[id].key), table[id], t), t)

\* the kill switch: prisma.flag.update, which throws when the flag is gone,
\* and the cache writes
KillWrites(id) ==
    IF id \in DOMAIN flags
    THEN /\ flags' = [flags EXCEPT ![id].isActive = FALSE]
         /\ redis' = KillCache(flags', id, redis, now)
    ELSE UNCHANGED <<flags, redis>>

\* POST /api/flags/:id with { action: 'kill' }
FlagKill ==
    \E id \in {"f1", "f2"} :
        /\ KillWrites(id)
        /\ UNCHANGED <<callVars, now, apiKeys, response, pinned, auditVars, statsVars,
                       sdkVars>>

\* the elements of a sequence
Range(seq) == {seq[i] : i \in 1..Len(seq)}

\* the handler has run: its response goes out, the API key table is written
Answered(out) ==
    /\ response' = out.response
    /\ apiKeys' = out.table

\* GET /api/edge/flags
EdgeGET ==
    \E request \in EdgeRequests :
        /\ Answered(GET(request, redis, apiKeys, now))
        /\ UNCHANGED <<callVars, now, flags, redis, pinned, auditVars, statsVars, sdkVars>>

Next == Tick \/ FlagsGET \/ FlagPATCH \/ FlagKill \/ EdgeGET

Spec == Init /\ [][Next]_vars

\* ------------------------------------------------------------------------
\* The service under audit: the flag API writes and the clock ticks, then
\* the edge endpoint is asked. disabledBy remembers the write that took a
\* flag out of service, asked what the endpoint was asked and could see.
\* ------------------------------------------------------------------------
\* disabledBy of a flag after a PATCH with this isActive
AfterPatch(by, isActive) ==
    IF isActive = Nothing THEN by
    ELSE IF isActive[1] THEN "none"
    ELSE IF by = "kill" THEN "kill"
    ELSE "patch"

TickAudited == asked = Nothing /\ Tick

FlagsGETAudited == asked = Nothing /\ FlagsGET

FlagPATCHAudited ==
    \E req \in PatchRequests :
        /\ asked = Nothing
        /\ PatchWrites(req)
        /\ disabledBy' = IF req[1] \in DOMAIN flags
                         THEN [disabledBy EXCEPT ![req[1]] = AfterPatch(@, req[2].isActive)]
                         ELSE disabledBy
        /\ UNCHANGED <<callVars, now, apiKeys, response, pinned, asked, handlers, statsVars,
                       sdkVars>>

FlagDELETEAudited ==
    \E id \in {"f1", "f2"} :
        /\ asked = Nothing
        /\ DeleteWrites(id)
        /\ disabledBy' = IF id \in DOMAIN flags
                         THEN [disabledBy EXCEPT
                                  ![id] = IF @ = "kill" THEN "kill" ELSE "delete"]
                         ELSE disabledBy
        /\ UNCHANGED <<callVars, now, apiKeys, response, pinned, asked, handlers, statsVars,
                       sdkVars>>

FlagKillAudited ==
    \E id \in {"f1", "f2"} :
        /\ asked = Nothing
        /\ KillWrites(id)
        /\ disabledBy' = IF id \in DOMAIN flags
                         THEN [disabledBy EXCEPT ![id] = "kill"]
                         ELSE disabledBy
        /\ UNCHANGED <<callVars, now, apiKeys, response, pinned, asked, handlers, statsVars,
                       sdkVars>>

\* the request, the writes that had taken flags out of service, and the
\* Redis entries alive when the request was answered
Asked(request, by, store, t) ==
    [request |-> request, disabledBy |-> by,
     flag |-> [key \in {"f1", "f2"} |-> RedisGet(store, FlagCacheKey(key), t)],
     allFlags |-> RedisGet(store, AllFlagsCacheKey, t)]

EdgeGETAudited ==
    \E request \in EdgeRequests :
        /\ Answered(GET(request, redis, apiKeys, now))
        /\ asked' = Some(Asked(request, disabledBy, redis, now))
        /\ UNCHANGED <<callVars, now, flags, redis, pinned, disabledBy, handlers, statsVars,
                       sdkVars>>

NextAudit ==
    \/ TickAudited \/ FlagsGETAudited \/ FlagPATCHAudited \/ FlagDELETEAudited
    \/ FlagKillAudited \/ EdgeGETAudited

SpecAudit == Init /\ [][NextAudit]_vars

\* ------------------------------------------------------------------------
\* The SDK client against the service
\* ------------------------------------------------------------------------
\* getFlag(flagKey): a cache hit returns at once, a miss sends the request
SdkGetFlag ==
    \E flagKey \in SdkFlagKeys :
        LET cached == getCachedFlag(cache, flagKey, now)
        IN  /\ sdkCall.pc = "idle"
            /\ Len(exposures) < MaxExposures
            /\ cache' = cached.cache
            /\ fetchedWith' = Tagged(cache', userAttributes)
            /\ IF cached.result # Nothing
               THEN /\ sdkCall' = Call("resolved", flagKey, cached.result, Nothing, 0,
                                       "hit")
                    /\ inflight' = Nothing
               ELSE /\ sdkCall' = Call("fetching", flagKey, Nothing, Nothing, 0,
                                       IF cache[flagKey] = Nothing THEN "absent"
                                       ELSE "expired")
                    /\ inflight' = Some([request |-> SdkRequest(flagKey),
                                         response |-> Nothing,
                                         attributes |-> userAttributes])
            /\ UNCHANGED <<callVars, now, flags, apiKeys, redis, response, pinned,
                           auditVars, statsVars, exposures, userAttributes, refreshed>>

\* the handler has run for the client's request
AnsweredToSdk(out) ==
    /\ inflight' = Some([inflight[1] EXCEPT !.response = Some(out.response)])
    /\ apiKeys' = out.table

\* the edge endpoint answers the client's request
EdgeGETForSdk ==
    /\ inflight # Nothing
    /\ inflight[1].response = Nothing
    /\ AnsweredToSdk(GET(inflight[1].request, redis, apiKeys, now))
    /\ UNCHANGED <<callVars, now, flags, redis, response, pinned, auditVars, statsVars,
                   cache, sdkCall, exposures, clientVars>>

\* ResolveWithDefault that returns the default result without caching it
ResolveWithDefault_Uncached(entries) ==
    /\ cache' = entries
    /\ sdkCall' = [sdkCall EXCEPT !.pc = "resolved",
                                  !.ret = Some(DefaultResult(sdkCall.flagKey))]
    /\ inflight' = Nothing
    /\ fetchedWith' = Tagged(cache', inflight[1].attributes)
    /\ UNCHANGED <<exposures, userAttributes, refreshed>>

\* getFlags returned no result for the key: the default result is cached
\* and returned
ResolveWithDefault(entries) ==
    /\ cache' = cacheFlag(entries, sdkCall.flagKey, DefaultResult(sdkCall.flagKey), now)
    /\ sdkCall' = [sdkCall EXCEPT !.pc = "resolved",
                                  !.ret = Some(DefaultResult(sdkCall.flagKey))]
    /\ inflight' = Nothing
    /\ fetchedWith' = Tagged(cache', inflight[1].attributes)
    /\ UNCHANGED <<exposures, userAttributes, refreshed>>

\* fetch rejects: the request or its response is lost
SdkFetchRejects ==
    /\ inflight # Nothing
    /\ ResolveWithDefault(cache)
    /\ UNCHANGED <<callVars, now, flags, apiKeys, redis, response, pinned, auditVars,
                   statsVars>>

\* fetch resolves with the response; getFlags caches its results and
\* fetchAndCacheFlag issues the exposure request and returns
SdkFetchResolves ==
    /\ inflight # Nothing
    /\ inflight[1].response # Nothing
    /\ LET res == inflight[1].response[1]
           results == IF res.flags = Nothing THEN <<>> ELSE res.flags[1]
           found == ResultFor(results, sdkCall.flagKey)
       IN  IF res.status # 200
           THEN ResolveWithDefault(cache)
           ELSE IF found = Nothing
           THEN ResolveWithDefault(CacheEach(cache, results, 1, now))
           ELSE /\ cache' = CacheEach(cache, results, 1, now)
                /\ fetchedWith' = Tagged(cache', inflight[1].attributes)
                /\ UNCHANGED <<userAttributes, refreshed>>
                /\ inflight' = Nothing
                /\ IF found[1].isActive
                   THEN /\ exposures' = Append(exposures,
                                               Exposure(sdkCall.flagKey, found[1].variant,
                                                        "pending"))
                        /\ sdkCall' = [sdkCall EXCEPT !.pc = "resolved", !.ret = found,
                                                      !.fetched = found,
                                                      !.exposure = Len(exposures) + 1]
                   ELSE /\ exposures' = exposures
                        /\ sdkCall' = [sdkCall EXCEPT !.pc = "resolved", !.ret = found,
                                                      !.fetched = found]
    /\ UNCHANGED <<callVars, now, flags, apiKeys, redis, response, pinned, auditVars,
                   statsVars>>

\* an exposure request ends: POST /api/exposures answered, or the request failed
ExposureSettles ==
    \E i \in 1..Len(exposures), outcome \in {"ok", "failed"} :
        /\ exposures[i].status = "pending"
        /\ exposures' = [exposures EXCEPT ![i].status = outcome]
        /\ sdkCall' = ExposureOutcomeOnCall(sdkCall, i, outcome)
        /\ UNCHANGED <<callVars, now, flags, apiKeys, redis, response, pinned, auditVars,
                       statsVars, cache, inflight, clientVars>>

\* the caller has its answer; the next call can start
SdkCallReturns ==
    /\ sdkCall.pc \in {"resolved", "rejected"}
    /\ sdkCall' = NoCall
    /\ UNCHANGED <<callVars, now, flags, apiKeys, redis, response, pinned, auditVars,
                   statsVars, cache, inflight, exposures, clientVars>>

NextSdk ==
    \/ Tick \/ FlagPATCH \/ FlagKill
    \/ SdkGetFlag \/ EdgeGETForSdk \/ SdkFetchRejects \/ SdkFetchResolves
    \/ ExposureSettles \/ SdkCallReturns

SpecSdk == Init /\ [][NextSdk]_vars

\* ------------------------------------------------------------------------
\* The SDK client over time: expiry, refresh, attribute updates
\* ------------------------------------------------------------------------
MaxClientTicks == 3

\* the clock advances in steps of half a cache lifetime
ClientTickMs == CacheTtlMs \div 2

ClientTick ==
    /\ now < MaxClientTicks * ClientTickMs
    /\ now' = now + ClientTickMs
    /\ UNCHANGED <<callVars, flags, apiKeys, redis, response, pinned, auditVars, statsVars,
                   sdkVars>>

\* the attributes the application passes to updateUserAttributes
AttributeUpdates == {[country |-> Some("DE")], [country |-> Some("US")]}

\* { ...this.userAttributes, ...attributes }
Merged(attributes, update) ==
    [f \in DOMAIN attributes |-> IF f \in DOMAIN update THEN update[f] ELSE attributes[f]]

\* updateUserAttributes(attributes): the attributes are merged and the cache
\* is cleared; a request under way goes on
SdkUpdateUserAttributes ==
    \E update \in AttributeUpdates :
        /\ userAttributes' = Merged(userAttributes, update)
        /\ cache' = EmptyCache
        /\ fetchedWith' = Tagged(cache', userAttributes')
        /\ UNCHANGED <<callVars, now, flags, apiKeys, redis, response, pinned, auditVars,
                       statsVars, sdkCall, inflight, exposures, refreshed>>

\* Object.keys(this.cache)
CachedKeys(entries) == {k \in DOMAIN entries : entries[k] # Nothing}

\* refresh(), called by the application or by the timer: clearCache() runs
\* first, cachedKeys are the keys of the cache it leaves, and getFlags is
\* called for them when there is any
SdkRefresh ==
    LET cleared == EmptyCache
        cachedKeys == CachedKeys(cleared)
    IN  /\ cachedKeys = {}
        /\ cache' = cleared
        /\ fetchedWith' = Tagged(cache', userAttributes)
        /\ refreshed' = Some([cached |-> CachedKeys(cache), fetched |-> cachedKeys])
        /\ UNCHANGED <<callVars, now, flags, apiKeys, redis, response, pinned, auditVars,
                       statsVars, sdkCall, inflight, exposures, userAttributes>>

\* ApplicationManager.revokeApiKey on the client's key
RevokeApiKey ==
    /\ apiKeys[sha256Hash(SdkApiKey[1])].isActive
    /\ apiKeys' = [apiKeys EXCEPT ![sha256Hash(SdkApiKey[1])].isActive = FALSE]
    /\ UNCHANGED <<callVars, now, flags, redis, response, pinned, auditVars, statsVars,
                   sdkVars>>

\* both flags were activated by PATCH requests before the client starts
ActivatedFlags == [id \in DOMAIN InitialFlags |-> [InitialFlags[id] EXCEPT !.isActive = TRUE]]

InitClient ==
    /\ callArgs = None
    /\ callRet = None
    /\ callPc = "off"
    /\ now = 0
    /\ flags = ActivatedFlags
    /\ apiKeys = InitialApiKeys
    /\ redis = updateFlagCache(ActivatedFlags, EmptyRedis, 0)
    /\ response = NoResponse
    /\ pinned = Nothing
    /\ cache = EmptyCache
    /\ sdkCall = NoCall
    /\ inflight = Nothing
    /\ exposures = <<>>
    /\ userAttributes = SdkUserAttributes
    /\ fetchedWith = [k \in SdkFlagKeys |-> Nothing]
    /\ refreshed = Nothing
    /\ disabledBy = [id \in {"f1", "f2"} |-> "none"]
    /\ asked = Nothing
    /\ handlers = <<>>
    /\ StatsOff

NextClient ==
    \/ ClientTick \/ RevokeApiKey
    \/ SdkGetFlag \/ EdgeGETForSdk \/ SdkFetchRejects \/ SdkFetchResolves
    \/ SdkCallReturns
    \/ SdkUpdateUserAttributes \/ SdkRefresh

SpecClient == InitClient /\ [][NextClient]_vars

\* ------------------------------------------------------------------------
\* The experiment engine: doubles of the significance test
\* ------------------------------------------------------------------------
\* n / d as a double, for integers 0 <= n <= d < 2^14: the long division of
\* n * 2^(j + 53) by d in six digits of 9 bits, with j chosen so that
\* 1 <= n * 2^j / d < 2
DblRatio(n, d) ==
    IF n = 0 THEN DblZero
    ELSE LET j == CHOOSE k \in 0..14 : n * (2 ^ k) >= d /\ (k = 0 \/ n * (2 ^ (k - 1)) < d)
             top == n * (2 ^ j) * (2 ^ 8)
             a1 == top \div d
             r1 == top % d
             a2 == (r1 * 512) \div d
             r2 == (r1 * 512) % d
             a3 == (r2 * 512) \div d
             r3 == (r2 * 512) % d
             a4 == (r3 * 512) \div d
             r4 == (r3 * 512) % d
             a5 == (r4 * 512) \div d
             r5 == (r4 * 512) % d
             a6 == (r5 * 512) \div d
             r6 == (r5 * 512) % d
         IN  RoundToDouble(FALSE, <<(a1 * 512) + a2, (a3 * 512) + a4, (a5 * 512) + a6>>,
                           0 - (j + 53), r6 # 0)

\* x >= y for doubles x, y >= 0
DblGeq(x, y) ==
    IF y.m = <<0, 0, 0>> THEN TRUE
    ELSE IF x.m = <<0, 0, 0>> THEN FALSE
    ELSE \/ x.e > y.e
         \/ /\ x.e = y.e
            /\ \/ x.m[1] > y.m[1]
               \/ x.m[1] = y.m[1] /\ x.m[2] > y.m[2]
               \/ x.m[1] = y.m[1] /\ x.m[2] = y.m[2] /\ x.m[3] >= y.m[3]

\* x <= y for doubles x, y >= 0
DblLeq(x, y) == DblGeq(y, x)

\* the literals 0.95 and 0.05: the doubles nearest to 19/20 and 1/20
Dbl_0_95 == DblRatio(19, 20)

Dbl_0_05 == DblRatio(1, 20)

\* ------------------------------------------------------------------------
\* The experiment engine: computeBayesianABTest
\* ------------------------------------------------------------------------
\* const numSamples = 10000
numSamples == 10000

Arm(users, conversions) == [users |-> users, conversions |-> conversions]

ExperimentData(control, treatment) == [control |-> control, treatment |-> treatment]

\* Posterior that leaves the conversions out of beta
Posterior_AllUsers(arm) ==
    [alpha |-> 1 + arm.conversions, beta |-> 1 + arm.users]

\* priorAlpha + conversions, priorBeta + users - conversions
Posterior(arm) ==
    [alpha |-> 1 + arm.conversions, beta |-> (1 + arm.users) - arm.conversions]

\* conversions / Math.max(users, 1), as the fraction <<numerator, denominator>>
ConversionRate(arm) == <<arm.conversions, Max(arm.users, 1)>>

\* the arm of the result
ArmResult(arm) ==
    [users |-> arm.users, conversions |-> arm.conversions,
     conversionRate |-> ConversionRate(arm),
     alpha |-> Posterior(arm).alpha, beta |-> Posterior(arm).beta]

\* treatmentWins / numSamples
WinProbability(treatmentWins) == DblRatio(treatmentWins, numSamples)

\* isSignificant with strict comparisons
IsSignificant_Strict(winProbability) ==
    \/ ~DblLeq(winProbability, Dbl_0_95)
    \/ ~DblGeq(winProbability, Dbl_0_05)

\* winProbability >= 0.95 || winProbability <= 0.05
IsSignificant(winProbability) ==
    \/ DblGeq(winProbability, Dbl_0_95)
    \/ DblLeq(winProbability, Dbl_0_05)

\* the BayesianResult, given the number of iterations of
\* calculateWinProbability in which the treatment sample was the greater.
\* confidenceInterval, expectedLift and relativeLift are left out.
BayesianResult(data, treatmentWins) ==
    [control |-> ArmResult(data.control),
     treatment |-> ArmResult(data.treatment),
     winProbability |-> WinProbability(treatmentWins),
     isSignificant |-> IsSignificant(WinProbability(treatmentWins))]

\* ------------------------------------------------------------------------
\* The experiment engine: the random sampler.  A normal value is named by
\* where it comes from: the computation that drew the two uniform values,
\* which pair of that computation it was, and whether it is the sine or the
\* cosine half of the pair.  Whether a value of gammaRandom's loop is
\* accepted depends on the numbers drawn, so it is an input of the call.
\* ------------------------------------------------------------------------
\* the sampler as a call sees it: the module-level pair hasSpare / spare,
\* the computation that is calling and the pairs it has drawn so far
Sampler(hs, sp, computation, pairs) ==
    [hasSpare |-> hs, spare |-> sp, computation |-> computation, pairs |-> pairs]

\* normalRandom: the value returned and the sampler it leaves
normalRandom(s) ==
    IF s.hasSpare
    THEN [value |-> s.spare, sampler |-> [s EXCEPT !.hasSpare = FALSE]]
    ELSE [value |-> Normal(s.computation, s.pairs + 1, "sin"),
          sampler |-> [s EXCEPT !.hasSpare = TRUE,
                                !.spare = Normal(s.computation, s.pairs + 1, "cos"),
                                !.pairs = s.pairs + 1]]

\* what gammaRandom has done so far: the sampler, the values normalRandom
\* returned to it, and the shapes it was called with
Drawn(sampler, normals, shapes) ==
    [sampler |-> sampler, normals |-> normals, shapes |-> shapes]

\* the while (true) loop of gammaRandom from turn i of the path on.  A turn
\* is "nonPositive" (v <= 0: the next normal value is asked for),
\* "rejected" (both tests on u fail) or "accepted" (the value is returned).
RECURSIVE GammaLoop(_, _, _)
GammaLoop(d, path, i) ==
    LET n == normalRandom(d.sampler)
        after == Drawn(n.sampler, Append(d.normals, n.value), d.shapes)
    IN  IF path[i] = "accepted" \/ i = Len(path) THEN after
        ELSE GammaLoop(after, path, i + 1)

\* gammaRandom(shape): for shape < 1 it calls itself with shape + 1 first
RECURSIVE gammaRandom(_, _, _)
gammaRandom(d, shape, path) ==
    LET called == Drawn(d.sampler, d.normals, Append(d.shapes, shape))
    IN  IF shape < 1 THEN gammaRandom(called, shape + 1, path)
        ELSE GammaLoop(called, path, 1)

\* betaRandom(alpha, beta): gammaRandom(alpha), then gammaRandom(beta)
betaRandom(sampler, alpha, beta, pathX, pathY) ==
    gammaRandom(gammaRandom(Drawn(sampler, <<>>, <<>>), alpha, pathX), beta, pathY)

\* the paths gammaRandom's loop can take with at most n turns that do not
\* return
GammaPaths(n) ==
    UNION {{retries \o <<"accepted">> : retries \in [1..k -> {"nonPositive", "rejected"}]} :
           k \in 0..n}

\* the turns of a path that did not return
Retries(path) == Len(path) - 1

\* one iteration of a Monte Carlo loop in which every gammaRandom call
\* returns at its first turn draws two pairs; n such iterations leave
\* hasSpare as it was and the cosine half of the last pair in spare
FirstTurnIterations(s, n) ==
    IF n = 0 THEN s
    ELSE [s EXCEPT !.spare = Normal(s.computation, s.pairs + (2 * n), "cos"),
                   !.pairs = s.pairs + (2 * n)]

\* ------------------------------------------------------------------------
\* computeBayesianABTest called again and again.  The first SamplesWalked
\* iterations of each Monte Carlo loop are walked one betaRandom call at a
\* time; the iterations after them are taken in one step, every gammaRandom
\* call of theirs returning at its first turn.
\* ------------------------------------------------------------------------
MaxComputations == 2

SamplesWalked == 1

\* the turns of gammaRandom's loop that do not return, per computation
MaxRetries == 1

Arms == {Arm(0, 0), Arm(0, 1), Arm(1, 0), Arm(1, 1)}

ExperimentDatas == {ExperimentData(c, t) : c \in Arms, t \in Arms}

\* the numbers of iterations won by the treatment that are tried
WinChoices == {0, 500, 501, 9499, 9500, numSamples}

\* the call under way: which computation it is, the loop and the iteration
\* it is in, the arm sampled next, the pairs drawn and the turns retried so
\* far, the count of calculateWinProbability, and the last betaRandom call
Sampling(computation, at, i, arm, pairs, retries, treatmentWins, last) ==
    [computation |-> computation, at |-> at, i |-> i, arm |-> arm, pairs |-> pairs,
     retries |-> retries, treatmentWins |-> treatmentWins, last |-> last]

SamplerNow == Sampler(hasSpare, spare, sampling.computation, sampling.pairs)

InitBayes ==
    /\ callArgs \in ExperimentDatas
    /\ callRet = None
    /\ callPc = "ready"
    /\ FlagServiceOff
    /\ hasSpare = FALSE
    /\ spare = SpareInitial
    /\ sampling = None
    /\ experiments = <<>>
    /\ jobResponse = None

\* computeBayesianABTest(data) is called
CallComputeBayesianABTest ==
    /\ callPc \in {"ready", "done"}
    /\ callPc = "done" => sampling.computation < MaxComputations
    /\ sampling' = Sampling(IF callPc = "ready" THEN 1 ELSE sampling.computation + 1,
                            "win", 0, "treatment", 0, 0, 0, Drawn(None, <<>>, <<>>))
    /\ callRet' = None
    /\ callPc' = "running"
    /\ UNCHANGED <<callArgs, hasSpare, spare, experiments, jobResponse>>
    /\ UNCHANGED <<now, flags, apiKeys, redis, response, pinned, sdkVars, auditVars>>

\* betaRandom(treatmentAlpha, treatmentBeta) or betaRandom(controlAlpha,
\* controlBeta) in an iteration of either loop
BetaRandomCall ==
    /\ callPc = "running"
    /\ sampling.at \in {"win", "interval"}
    /\ sampling.i < SamplesWalked
    /\ \E pathX, pathY \in GammaPaths(MaxRetries) :
         LET posterior == Posterior(IF sampling.arm = "treatment"
                                    THEN callArgs.treatment ELSE callArgs.control)
             drawn == betaRandom(SamplerNow, posterior.alpha, posterior.beta,
                                 pathX, pathY)
         IN  /\ sampling.retries + Retries(pathX) + Retries(pathY) <= MaxRetries
             /\ hasSpare' = drawn.sampler.hasSpare
             /\ spare' = drawn.sampler.spare
             /\ sampling' =
                  [sampling EXCEPT
                      !.pairs = drawn.sampler.pairs,
                      !.retries = @ + Retries(pathX) + Retries(pathY),
                      !.last = Drawn(None, drawn.normals, drawn.shapes),
                      !.arm = IF @ = "treatment" THEN "control" ELSE "treatment",
                      !.i = IF sampling.arm = "control" THEN @ + 1 ELSE @]
    /\ UNCHANGED <<callVars, experiments, jobResponse>>
    /\ UNCHANGED <<now, flags, apiKeys, redis, response, pinned, sdkVars, auditVars>>

\* the iterations of the loop that are not walked; calculateWinProbability
\* then returns its count, calculateConfidenceInterval its interval
RestOfLoop ==
    /\ callPc = "running"
    /\ sampling.at \in {"win", "interval"}
    /\ sampling.i = SamplesWalked
    /\ LET after == FirstTurnIterations(SamplerNow, numSamples - SamplesWalked)
       IN  /\ hasSpare' = after.hasSpare
           /\ spare' = after.spare
           /\ \E treatmentWins \in WinChoices :
                sampling' =
                    IF sampling.at = "win"
                    THEN [sampling EXCEPT !.at = "interval", !.i = 0,
                                          !.pairs = after.pairs,
                                          !.treatmentWins = treatmentWins]
                    ELSE [sampling EXCEPT !.at = "return", !.pairs = after.pairs]
    /\ UNCHANGED <<callVars, experiments, jobResponse>>
    /\ UNCHANGED <<now, flags, apiKeys, redis, response, pinned, sdkVars, auditVars>>

\* computeBayesianABTest returns its result
ComputeBayesianABTestReturns ==
    /\ callPc = "running"
    /\ sampling.at = "return"
    /\ callRet' = BayesianResult(callArgs, sampling.treatmentWins)
    /\ callPc' = "done"
    /\ sampling' = [sampling EXCEPT !.at = "returned"]
    /\ UNCHANGED <<callArgs, hasSpare, spare, experiments, jobResponse>>
    /\ UNCHANGED <<now, flags, apiKeys, redis, response, pinned, sdkVars, auditVars>>

NextBayes ==
    \/ CallComputeBayesianABTest \/ BetaRandomCall \/ RestOfLoop
    \/ ComputeBayesianABTestReturns

SpecBayes == InitBayes /\ [][NextBayes]_vars

\* ------------------------------------------------------------------------
\* The verdict of computeBayesianABTest for each count of won iterations
\* ------------------------------------------------------------------------
Data_reference == ExperimentData(Arm(1000, 120), Arm(1000, 156))

InitVerdict ==
    /\ callArgs \in [data : {Data_reference}, treatmentWins : 0..numSamples]
    /\ callRet = None
    /\ callPc = "ready"
    /\ ServiceOff

CallBayesianResult ==
    /\ callPc = "ready"
    /\ callRet' = BayesianResult(callArgs.data, callArgs.treatmentWins)
    /\ callPc' = "done"
    /\ UNCHANGED <<callArgs, serviceVars>>

NextVerdict == CallBayesianResult

SpecVerdict == InitVerdict /\ [][NextVerdict]_vars

\* ------------------------------------------------------------------------
\* The Monte Carlo estimator on the values betaRandom returns.  The values
\* are inputs of each iteration, and the loops run EstimatorSamples times so
\* that every list of differences is walked.
\* ------------------------------------------------------------------------
EstimatorSamples == 3

\* the values betaRandom returns, in quarters
SampleValues == {1, 2, 3}

\* the estimator under way: the loop and the iteration it is in, the count
\* of calculateWinProbability, the differences of
\* calculateConfidenceInterval, and the pair of samples drawn last
Estimating(at, i, treatmentWins, differences, last) ==
    [at |-> at, i |-> i, treatmentWins |-> treatmentWins, differences |-> differences,
     last |-> last]

\* differences.sort((a, b) => a - b)
RECURSIVE SortAscending(_)
SortAscending(list) ==
    IF Len(list) = 0 THEN <<>>
    ELSE LET least == CHOOSE i \in 1..Len(list) :
                          /\ \A j \in 1..Len(list) : list[i] <= list[j]
                          /\ \A j \in 1..(i - 1) : list[j] # list[i]
         IN  <<list[least]>> \o
             SortAscending([k \in 1..(Len(list) - 1) |->
                               IF k < least THEN list[k] ELSE list[k + 1]])

\* Math.floor(0.025 * numSamples), Math.floor(0.975 * numSamples)
LowerIndex(n) == (25 * n) \div 1000

UpperIndex(n) == (975 * n) \div 1000

\* differences[index] || 0 on the sorted list
AtIndexOrZero(sorted, index) ==
    IF index + 1 \in 1..Len(sorted) /\ sorted[index + 1] # 0 THEN sorted[index + 1] ELSE 0

InitEstimate ==
    /\ callArgs = [treatment |-> Posterior(Data_reference.treatment),
                   control |-> Posterior(Data_reference.control)]
    /\ callRet = None
    /\ callPc = "running"
    /\ FlagServiceOff
    /\ hasSpare = FALSE
    /\ spare = SpareInitial
    /\ sampling = Estimating("win", 0, 0, <<>>, <<0, 0>>)
    /\ experiments = <<>>
    /\ jobResponse = None

\* an iteration of calculateWinProbability's loop; the loop ends after
\* numSamples iterations
WinIteration ==
    /\ callPc = "running"
    /\ sampling.at = "win"
    /\ \E treatmentSample, controlSample \in SampleValues :
         sampling' = [sampling EXCEPT
                         !.i = @ + 1,
                         !.treatmentWins = IF treatmentSample > controlSample
                                           THEN @ + 1 ELSE @,
                         !.last = <<treatmentSample, controlSample>>,
                         !.at = IF sampling.i + 1 = EstimatorSamples
                                THEN "interval" ELSE "win"]
    /\ UNCHANGED <<callVars, hasSpare, spare, experiments, jobResponse>>
    /\ UNCHANGED <<now, flags, apiKeys, redis, response, pinned, sdkVars, auditVars>>

\* an iteration of calculateConfidenceInterval's loop, which starts from 0
IntervalIteration ==
    /\ callPc = "running"
    /\ sampling.at = "interval"
    /\ \E treatmentSample, controlSample \in SampleValues :
         sampling' = [sampling EXCEPT
                         !.i = Len(sampling.differences) + 1,
                         !.differences = Append(@, treatmentSample - controlSample),
                         !.last = <<treatmentSample, controlSample>>,
                         !.at = IF Len(sampling.differences) + 1 = EstimatorSamples
                                THEN "return" ELSE "interval"]
    /\ UNCHANGED <<callVars, hasSpare, spare, experiments, jobResponse>>
    /\ UNCHANGED <<now, flags, apiKeys, redis, response, pinned, sdkVars, auditVars>>

\* calculateWinProbability's and calculateConfidenceInterval's results, as
\* computeBayesianABTest returns them; winProbability as the fraction
\* <<treatmentWins, numSamples>>
EstimatorReturns ==
    /\ callPc = "running"
    /\ sampling.at = "return"
    /\ LET sorted == SortAscending(sampling.differences)
       IN  callRet' = [winProbability |-> <<sampling.treatmentWins, EstimatorSamples>>,
                       lower |-> AtIndexOrZero(sorted, LowerIndex(EstimatorSamples)),
                       upper |-> AtIndexOrZero(sorted, UpperIndex(EstimatorSamples))]
    /\ callPc' = "done"
    /\ sampling' = [sampling EXCEPT !.at = "returned"]
    /\ UNCHANGED <<callArgs, hasSpare, spare, experiments, jobResponse>>
    /\ UNCHANGED <<now, flags, apiKeys, redis, response, pinned, sdkVars, auditVars>>

NextEstimate == WinIteration \/ IntervalIteration \/ EstimatorReturns

SpecEstimate == InitEstimate /\ [][NextEstimate]_vars

\* ------------------------------------------------------------------------
\* The compute job: POST /api/experiments/compute
\* ------------------------------------------------------------------------
ExperimentIds == <<"e1", "e2", "e3", "e4">>

Experiment(id, flagKey, isActive, stopTs, summaryJson) ==
    [id |-> id, flagKey |-> flagKey, isActive |-> isActive, stopTs |-> stopTs,
     summaryJson |-> summaryJson]

\* e4 was stopped before
InitialExperiments ==
    [id \in {"e1", "e2", "e3", "e4"} |->
        IF id = "e1" THEN Experiment("e1", "f1", TRUE, Nothing, Nothing)
        ELSE IF id = "e2" THEN Experiment("e2", "f2", TRUE, Nothing, Nothing)
        ELSE IF id = "e3" THEN Experiment("e3", "f3", TRUE, Nothing, Nothing)
        ELSE Experiment("e4", "f1", FALSE, Some(0 - 1), Nothing)]

ExposureRow(flagKey, userKey, variant, timestamp) ==
    [flagKey |-> flagKey, userKey |-> userKey, variant |-> variant,
     timestamp |-> timestamp]

\* the exposure table: f1 was shown as control and treatment, f2 as control
\* only, f3 as A and B
ExposureRows ==
    <<ExposureRow("f1", "u1", "control", 1), ExposureRow("f1", "u2", "treatment", 2),
      ExposureRow("f1", "u1", "control", 3), ExposureRow("f1", "u3", "treatment", 4),
      ExposureRow("f1", "u4", "treatment", 5), ExposureRow("f1", "u5", "treatment", 6),
      ExposureRow("f1", "u6", "treatment", 7),
      ExposureRow("f2", "u1", "control", 1),
      ExposureRow("f3", "u1", "A", 1), ExposureRow("f3", "u2", "B", 2)>>

\* findMany without the where clause: every experiment is selected
FindManyRunning_All(table) ==
    [i \in 1..Len(ExperimentIds) |-> table[ExperimentIds[i]]]

\* prisma.experiment.findMany({ where: { isActive: true, stopTs: null } })
FindManyRunning(table) ==
    SelectSeq([i \in 1..Len(ExperimentIds) |-> table[ExperimentIds[i]]],
              LAMBDA e : e.isActive /\ e.stopTs = Nothing)

\* orderBy: { timestamp: 'desc' }
RECURSIVE OrderByTimestampDesc(_)
OrderByTimestampDesc(rows) ==
    IF Len(rows) = 0 THEN <<>>
    ELSE LET newest == CHOOSE i \in 1..Len(rows) :
                           \A j \in 1..Len(rows) :
                               \/ rows[j].timestamp < rows[i].timestamp
                               \/ rows[j].timestamp = rows[i].timestamp /\ i <= j
         IN  <<rows[newest]>>
             \o OrderByTimestampDesc([k \in 1..(Len(rows) - 1) |->
                                          IF k < newest THEN rows[k] ELSE rows[k + 1]])

\* prisma.exposure.findMany({ where: { flagKey }, orderBy: { timestamp: 'desc' } })
FindManyExposures(flagKey) ==
    OrderByTimestampDesc(SelectSeq(ExposureRows, LAMBDA row : row.flagKey = flagKey))

\* the property names that are array indices, in ascending order
IndexKeys == <<"0", "1">>

\* the variants of the rows in the order of their first appearance
RECURSIVE FirstAppearances(_, _, _)
FirstAppearances(rows, i, seen) ==
    IF i > Len(rows) THEN seen
    ELSE FirstAppearances(rows, i + 1,
                          IF \E k \in 1..Len(seen) : seen[k] = rows[i].variant
                          THEN seen ELSE Append(seen, rows[i].variant))

\* Object.keys(variantGroups): index-like names first, in ascending order,
\* then the other names in the order they were added
GroupKeys(rows) ==
    LET added == FirstAppearances(rows, 1, <<>>)
        IsIndex(v) == \E k \in 1..Len(IndexKeys) : IndexKeys[k] = v
    IN  SelectSeq(IndexKeys, LAMBDA v : \E k \in 1..Len(added) : added[k] = v)
        \o SelectSeq(added, LAMBDA v : ~IsIndex(v))

\* v.toLowerCase().includes('control'), .includes('treatment'), for the
\* variant names in use
LowerIncludesControl(v) == v \in {"control", "Control", "control-b"}

LowerIncludesTreatment(v) == v \in {"treatment", "Treatment", "treatment-b"}

\* keys.find(predicate), or none
Find(keys, Test(_)) ==
    IF \E k \in 1..Len(keys) : Test(keys[k])
    THEN Some(keys[CHOOSE k \in 1..Len(keys) :
                       Test(keys[k]) /\ \A j \in 1..(k - 1) : ~Test(keys[j])])
    ELSE Nothing

\* found || keys[i]: keys[i] is undefined past the end of the keys
OrKey(found, keys, i) ==
    IF found # Nothing THEN found
    ELSE IF i <= Len(keys) THEN Some(keys[i]) ELSE Nothing

ControlVariant(keys) ==
    OrKey(Find(keys, LAMBDA v : LowerIncludesControl(v) \/ v = "false" \/ v = "0"),
          keys, 1)

TreatmentVariant(keys, controlVariant) ==
    OrKey(Find(keys, LAMBDA v : /\ Some(v) # controlVariant
                                /\ (LowerIncludesTreatment(v) \/ v = "true" \/ v = "1")),
          keys, 2)

\* new Set(rows of the variant .map(e => e.userKey)).size
UniqueUsers(rows, variant) ==
    Cardinality({rows[i].userKey : i \in {k \in 1..Len(rows) : rows[k].variant = variant}})

\* the values Math.floor(users * (pct / 100 + Math.random() * 0.1)) can
\* take, Math.random() being in [0, 1)
SimulatedConversions(users, pct) ==
    {c \in 0..users : c * 100 < users * (pct + 10) /\ (c + 1) * 100 > users * pct}

\* computeExperimentSummary from the exposures read up to the call of
\* computeBayesianABTest: the variants taken as the two arms and the users
\* of each, or none when it returns null
SummaryArms(rows) ==
    LET keys == GroupKeys(rows)
        controlVariant == ControlVariant(keys)
        treatmentVariant == TreatmentVariant(keys, controlVariant)
    IN  IF Len(rows) = 0 THEN Nothing
        ELSE IF controlVariant = Nothing \/ treatmentVariant = Nothing THEN Nothing
        ELSE IF \/ UniqueUsers(rows, controlVariant[1]) = 0
                \/ UniqueUsers(rows, treatmentVariant[1]) = 0
        THEN Nothing
        ELSE Some([controlVariant |-> controlVariant[1],
                   treatmentVariant |-> treatmentVariant[1],
                   control |-> UniqueUsers(rows, controlVariant[1]),
                   treatment |-> UniqueUsers(rows, treatmentVariant[1])])

\* computeExperimentSummary(flagKey), as far as SummaryArms goes
ArmUsers(flagKey) == SummaryArms(FindManyExposures(flagKey))

\* what happens to one experiment of a run: whether reading its exposures
\* or writing its record fails, the random numbers it draws for the
\* conversions, and the count of its calculateWinProbability
Plan(fails, controlRandom, treatmentRandom, treatmentWins) ==
    [fails |-> fails, controlRandom |-> controlRandom,
     treatmentRandom |-> treatmentRandom, treatmentWins |-> treatmentWins]

\* Math.random() for the conversions: the least value or a value near 1
Plans ==
    {Plan("nothing", "low", "low", 5000), Plan("nothing", "high", "high", 9500),
     Plan("exposure.findMany", "low", "low", 5000),
     Plan("experiment.update", "low", "high", 9500)}

\* one of the values SimulatedConversions allows
Conversions(users, pct, random) ==
    LET all == SimulatedConversions(users, pct)
    IN  IF random = "low" THEN CHOOSE c \in all : \A d \in all : c <= d
        ELSE CHOOSE c \in all : \A d \in all : c >= d

\* the experimentData of computeExperimentSummary
SummaryData(users, plan) ==
    ExperimentData(Arm(users.control, Conversions(users.control, 10, plan.controlRandom)),
                   Arm(users.treatment,
                       Conversions(users.treatment, 12, plan.treatmentRandom)))

\* shouldStop that stops every experiment computed
ShouldStop_Always(summary) == TRUE

\* summary.isSignificant && (summary.winProbability >= 0.95 ||
\*     summary.winProbability <= 0.05)
ShouldStop(summary) ==
    /\ summary.isSignificant
    /\ \/ DblGeq(summary.winProbability, Dbl_0_95)
       \/ DblLeq(summary.winProbability, Dbl_0_05)

\* the data object of prisma.experiment.update, applied to the record
UpdatedExperiment(experiment, summary, t) ==
    IF ShouldStop(summary)
    THEN [experiment EXCEPT !.summaryJson = Some(summary), !.stopTs = Some(t),
                            !.isActive = FALSE]
    ELSE [experiment EXCEPT !.summaryJson = Some(summary)]

\* the entries of results
Computed(experiment, summary, autoStopped) ==
    [experiment |-> experiment, summary |-> Some(summary), autoStopped |-> autoStopped,
     error |-> Nothing]

Failed(experiment, message) ==
    [experiment |-> experiment, summary |-> Nothing, autoStopped |-> FALSE,
     error |-> Some(message)]

\* the run so far: the experiment table, the results pushed, the spare
\* value of the sampler, and whether the loop was left
Run(table, results, spareValue, aborted) ==
    [table |-> table, results |-> results, spare |-> spareValue, aborted |-> aborted]

\* the body of the loop for one experiment whose exposures were read
ComputeAndUpdate(run, experiment, users, plan, t) ==
    LET summary == BayesianResult(SummaryData(users, plan), plan.treatmentWins)
        sampled == Normal(experiment.id, 4 * numSamples, "cos")
    IN  IF plan.fails = "experiment.update"
        THEN Run(run.table, Append(run.results, Failed(experiment, plan.fails)),
                 sampled, FALSE)
        ELSE Run([run.table EXCEPT ![experiment.id] =
                      UpdatedExperiment(experiment, summary, t)],
                 Append(run.results,
                        Computed(UpdatedExperiment(experiment, summary, t), summary,
                                 ShouldStop(summary))),
                 sampled, FALSE)

\* ProcessExperiment without the try around the body: the error leaves the loop
ProcessExperiment_Unguarded(run, experiment, plan, t) ==
    IF plan.fails = "exposure.findMany" THEN [run EXCEPT !.aborted = TRUE]
    ELSE IF ArmUsers(experiment.flagKey) = Nothing THEN run
    ELSE IF plan.fails = "experiment.update" THEN [run EXCEPT !.aborted = TRUE]
    ELSE ComputeAndUpdate(run, experiment, ArmUsers(experiment.flagKey)[1], plan, t)

\* the body of the loop for one experiment: try { ... } catch { ... }
ProcessExperiment(run, experiment, plan, t) ==
    IF plan.fails = "exposure.findMany"
    THEN Run(run.table, Append(run.results, Failed(experiment, plan.fails)),
             run.spare, FALSE)
    ELSE IF ArmUsers(experiment.flagKey) = Nothing THEN run
    ELSE ComputeAndUpdate(run, experiment, ArmUsers(experiment.flagKey)[1], plan, t)

\* for (const experiment of activeExperiments), from experiment i on
RECURSIVE ComputeEach(_, _, _, _, _)
ComputeEach(run, activeExperiments, i, plans, t) ==
    IF run.aborted \/ i > Len(activeExperiments) THEN run
    ELSE ComputeEach(ProcessExperiment(run, activeExperiments[i],
                                       plans[activeExperiments[i].id], t),
                     activeExperiments, i + 1, plans, t)

\* no run has been answered yet
NoJobResponse ==
    [status |-> 0, error |-> None, processedExperiments |-> 0, results |-> <<>>,
     batch |-> <<>>, plans |-> <<>>, before |-> <<>>]

\* the response of the job; batch, plans and before remember the experiments
\* the run selected, what happened to each, and the table it started from
JobResponse(run, batch, plans, before) ==
    IF run.aborted
    THEN [status |-> 500, error |-> "Failed to compute experiments",
          processedExperiments |-> 0, results |-> <<>>,
          batch |-> batch, plans |-> plans, before |-> before]
    ELSE [status |-> 200, error |-> None, processedExperiments |-> Len(run.results),
          results |-> run.results, batch |-> batch, plans |-> plans, before |-> before]

InitJob ==
    /\ callArgs = None
    /\ callRet = None
    /\ callPc = "off"
    /\ FlagServiceOff
    /\ hasSpare = FALSE
    /\ spare = SpareInitial
    /\ sampling = None
    /\ experiments = InitialExperiments
    /\ jobResponse = NoJobResponse

\* the handler has run
JobAnswered(run, batch, plans) ==
    /\ experiments' = run.table
    /\ spare' = run.spare
    /\ jobResponse' = JobResponse(run, batch, plans, experiments)

\* POST /api/experiments/compute; the plan of an experiment the run does not
\* reach is the first one
ComputePOST ==
    \E findManyFails \in BOOLEAN, plans \in [{"e1", "e2", "e3", "e4"} -> Plans] :
        /\ \A id \in {"e1", "e2", "e3", "e4"} :
               \/ ~findManyFails /\ experiments[id].isActive
               \/ plans[id] = Plan("nothing", "low", "low", 5000)
        /\ IF findManyFails
           THEN JobAnswered(Run(experiments, <<>>, spare, TRUE), <<>>, plans)
           ELSE JobAnswered(ComputeEach(Run(experiments, <<>>, spare, FALSE),
                                        FindManyRunning(experiments), 1, plans, now),
                            FindManyRunning(experiments), plans)
        /\ UNCHANGED <<callVars, hasSpare, sampling>>
        /\ UNCHANGED <<now, flags, apiKeys, redis, response, pinned, sdkVars, auditVars>>

NextJob == Tick \/ ComputePOST

SpecJob == InitJob /\ [][NextJob]_vars

\* ------------------------------------------------------------------------
\* computeExperimentSummary called on its own
\* ------------------------------------------------------------------------
MaxRows == 3

\* the variant names exposures carry
ExposureVariants == {"control", "treatment", "A", "B", "0", "1", "true", "false"}

SummaryUsers == <<"u1", "u2", "u3", "u4">>

\* the exposure tables of n rows of one flag: row i is of user i at time i
ExposureTables(n) ==
    {[i \in 1..n |-> ExposureRow("f1", SummaryUsers[i], names[i], i)] :
        names \in [1..n -> ExposureVariants]}

InitSummary ==
    /\ callArgs \in [rows : UNION {ExposureTables(n) : n \in 0..MaxRows}]
    /\ callRet = None
    /\ callPc = "ready"
    /\ ServiceOff

CallComputeExperimentSummary ==
    /\ callPc = "ready"
    /\ callRet' = SummaryArms(OrderByTimestampDesc(callArgs.rows))
    /\ callPc' = "done"
    /\ UNCHANGED <<callArgs, serviceVars>>

NextSummary == CallComputeExperimentSummary

SpecSummary == InitSummary /\ [][NextSummary]_vars

\* ------------------------------------------------------------------------
\* The flag API: create and update requests with arbitrary bodies
\* ------------------------------------------------------------------------
CreateBody(key, name, variants, rolloutPct) ==
    [key |-> key, name |-> name, variants |-> variants, rolloutPct |-> rolloutPct]

\* the bodies of the create requests made: the key of a stored flag, a new
\* key or none; variants missing, empty or given; rolloutPct missing, below,
\* within or above the range
CreateRequests ==
    {CreateBody(key, Some("n"), variants, rolloutPct) :
        key \in {Nothing, Some("f1"), Some("f3")},
        variants \in {Nothing, Some(<<>>), Some(Variants_onOff)},
        rolloutPct \in {Nothing, Some(0 - 5), Some(50), Some(120)}}

\* the update requests made: variants missing, empty or given; rolloutPct
\* missing, below or above the range
UpdateRequests ==
    {<<id, PatchBody(variants, rolloutPct, Nothing)>> :
        id \in {"f1", "f3"},
        variants \in {Nothing, Some(<<>>), Some(Variants_single)},
        rolloutPct \in {Nothing, Some(0 - 5), Some(120)}}

ApiResponse(status, error) == [status |-> status, error |-> error]

\* !key || !name || !variants || !Array.isArray(variants) || variants.length === 0
MissingFields(body) ==
    \/ ~TruthyStr(body.key)
    \/ ~TruthyStr(body.name)
    \/ body.variants = Nothing
    \/ Len(body.variants[1]) = 0

\* the data object of prisma.flag.create; rolloutPct = 0 when the body has none
CreatedFlag(body, isActive) ==
    Flag(body.key[1], body.variants[1], Nothing,
         Max(0, Min(100, IF body.rolloutPct # Nothing THEN body.rolloutPct[1] ELSE 0)),
         Salt_x, isActive, Nothing)

\* POST /api/flags; the column default of isActive is the schema's
FlagPOST ==
    \E body \in CreateRequests, isActive \in BOOLEAN :
        /\ callArgs' = body
        /\ callPc' = "POST"
        /\ IF MissingFields(body)
           THEN /\ callRet' = ApiResponse(400, "Missing required fields: key, name, variants")
                /\ UNCHANGED <<flags, redis>>
           ELSE IF \E id \in DOMAIN flags : flags[id].key = body.key[1]
           THEN /\ callRet' = ApiResponse(400, "Flag with this key already exists")
                /\ UNCHANGED <<flags, redis>>
           ELSE /\ flags' = [id \in DOMAIN flags \cup {body.key[1]} |->
                                IF id \in DOMAIN flags THEN flags[id]
                                ELSE CreatedFlag(body, isActive)]
                /\ redis' = updateFlagCache(flags', redis, now)
                /\ callRet' = ApiResponse(201, "")
        /\ UNCHANGED <<now, apiKeys, response, pinned, auditVars, statsVars, sdkVars>>

\* PATCH /api/flags/:id and its response
FlagPATCHAnswered ==
    \E req \in UpdateRequests :
        /\ callArgs' = req
        /\ callPc' = "PATCH"
        /\ PatchWrites(req)
        /\ callRet' = IF req[1] \in DOMAIN flags THEN ApiResponse(200, "")
                      ELSE ApiResponse(500, "Failed to update flag")
        /\ UNCHANGED <<now, apiKeys, response, pinned, auditVars, statsVars, sdkVars>>

NextStore == FlagPOST \/ FlagPATCHAnswered

SpecStore == Init /\ [][NextStore]_vars

\* ------------------------------------------------------------------------
\* The kill switch and concurrent list requests, one await at a time
\* ------------------------------------------------------------------------
\* the requests: a kill of flag f1 and two GET /api/flags
RaceRequests == {"kill", "list1", "list2"}

\* a request under way: where it stands, the flag prisma.flag.update
\* returned, the flags findMany returned, and the index of the loop
Handler(pc, flag, found, i) == [pc |-> pc, flag |-> flag, found |-> found, i |-> i]

InitRace ==
    /\ callArgs = None
    /\ callRet = None
    /\ callPc = "off"
    /\ now = 0
    /\ flags = ActivatedFlags
    /\ apiKeys = InitialApiKeys
    /\ redis = updateFlagCache(ActivatedFlags, EmptyRedis, 0)
    /\ response = NoResponse
    /\ pinned = Nothing
    /\ cache = EmptyCache
    /\ sdkCall = NoCall
    /\ inflight = Nothing
    /\ exposures = <<>>
    /\ userAttributes = SdkUserAttributes
    /\ fetchedWith = [k \in SdkFlagKeys |-> Nothing]
    /\ refreshed = Nothing
    /\ disabledBy = [id \in {"f1", "f2"} |-> "none"]
    /\ asked = Nothing
    /\ handlers = [r \in RaceRequests |-> Handler("start", Nothing, <<>>, 0)]
    /\ StatsOff

\* await redis.set(CACHE_KEYS.allFlags(), flags, { ex: 300 }), then one
\* await redis.set(CACHE_KEYS.flag(flag.key), flag, { ex: 300 }) per flag
CacheWriteStep(r) ==
    LET h == handlers[r]
    IN  \/ /\ h.pc = "setAll"
           /\ redis' = RedisSet(redis, AllFlagsCacheKey, h.found, now)
           /\ handlers' = [handlers EXCEPT
                              ![r].pc = IF Len(h.found) = 0 THEN "done" ELSE "setEach",
                              ![r].i = 1]
           /\ UNCHANGED flags
        \/ /\ h.pc = "setEach"
           /\ redis' = RedisSet(redis, FlagCacheKey(h.found[h.i].key), h.found[h.i], now)
           /\ handlers' = [handlers EXCEPT
                              ![r].pc = IF h.i = Len(h.found) THEN "done" ELSE "setEach",
                              ![r].i = h.i + 1]
           /\ UNCHANGED flags

\* GET /api/flags: await prisma.flag.findMany, then the cache writes
ListStep ==
    \E r \in {"list1", "list2"} :
        /\ \/ /\ handlers[r].pc = "start"
              /\ handlers' = [handlers EXCEPT ![r].pc = "setAll",
                                              ![r].found = FindManyNewestFirst(flags)]
              /\ UNCHANGED <<flags, redis>>
           \/ CacheWriteStep(r)
        /\ UNCHANGED <<callVars, now, apiKeys, response, pinned, disabledBy, asked,
                       statsVars, sdkVars>>

\* POST /api/flags/f1 with { action: 'kill' }: await prisma.flag.update,
\* await redis.set of the flag's entry, then updateFlagCache: await
\* prisma.flag.findMany and the cache writes
KillStep ==
    /\ \/ /\ handlers["kill"].pc = "start"
          /\ flags' = [flags EXCEPT !["f1"].isActive = FALSE]
          /\ handlers' = [handlers EXCEPT !["kill"].pc = "setFlag",
                                          !["kill"].flag = Some(flags'["f1"])]
          /\ UNCHANGED redis
       \/ /\ handlers["kill"].pc = "setFlag"
          /\ redis' = RedisSet(redis, FlagCacheKey(handlers["kill"].flag[1].key),
                               handlers["kill"].flag[1], now)
          /\ handlers' = [handlers EXCEPT !["kill"].pc = "find"]
          /\ UNCHANGED flags
       \/ /\ handlers["kill"].pc = "find"
          /\ handlers' = [handlers EXCEPT !["kill"].pc = "setAll",
                                          !["kill"].found = FindManyActive(flags)]
          /\ UNCHANGED <<flags, redis>>
       \/ CacheWriteStep("kill")
    /\ UNCHANGED <<callVars, now, apiKeys, response, pinned, disabledBy, asked,
                   statsVars, sdkVars>>

\* every request has completed
AllCompleted == \A r \in RaceRequests : handlers[r].pc = "done"

\* the edge endpoint answers a request naming the killed flag, after the
\* requests have completed
EdgeGETAfterwards ==
    /\ AllCompleted
    /\ response = NoResponse
    /\ Answered(GET(Request(Nothing, Some(Key_u96), Some(<<"f1">>), Some("US"), Nothing),
                    redis, apiKeys, now))
    /\ UNCHANGED <<callVars, now, flags, redis, pinned, auditVars, statsVars, sdkVars>>

NextRace == ListStep \/ KillStep \/ EdgeGETAfterwards

SpecRace == InitRace /\ [][NextRace]_vars

\* ========================================================================
\* Properties
\* ========================================================================

\* C1: for a flag with a non-empty variants list, evaluateFlag returns, and
\* its reason is decided by the first failing check in the order: flag
\* inactive -> flag_disabled; targeting rules not matched ->
\* targeting_rules_not_met; getBucket(userKey, salt) >= rolloutPct ->
\* not_in_rollout; otherwise evaluated.
Thm_C1_ReasonOrder ==
    (callPc = "done" /\ Len(callArgs.flag.variants) > 0) =>
        /\ ~callRet.threw
        /\ callRet.value[1].reason =
             IF ~callArgs.flag.isActive THEN "flag_disabled"
             ELSE IF ~matchesTargetingRules(callArgs.attributes, callArgs.flag.rules)
             THEN "targeting_rules_not_met"
             ELSE IF getBucket(callArgs.userKey, callArgs.flag.salt)
                       >= callArgs.flag.rolloutPct
             THEN "not_in_rollout"
             ELSE "evaluated"

\* an active flag whose targeting fails for a user who is also outside the
\* rollout: the reason is the targeting one
Wit_C1_TargetingBeforeRollout ==
    /\ callPc = "done"
    /\ callArgs.flag.isActive
    /\ Len(callArgs.flag.variants) > 0
    /\ ~matchesTargetingRules(callArgs.attributes, callArgs.flag.rules)
    /\ getBucket(callArgs.userKey, callArgs.flag.salt) >= callArgs.flag.rolloutPct
    /\ callRet.value[1].reason = "targeting_rules_not_met"

\* C2: every result of evaluateFlag for a flag with a non-empty variants
\* list whose reason is not evaluated carries the key and the value of
\* variants[0] and isActive = false; and in every result of a response of
\* the edge GET handler, the flag_not_found and access_denied results
\* included, isActive is true if and only if the reason is evaluated.
Thm_C2_DefaultsAndIsActive ==
    /\ \A e \in Range(response.evals) :
         (Len(e.flag.variants) > 0 /\ e.result.reason # "evaluated") =>
             /\ e.result.reason \in {"flag_disabled", "targeting_rules_not_met",
                                     "not_in_rollout"}
             /\ e.result.variant = e.flag.variants[1].key
             /\ e.result.value = e.flag.variants[1].value
             /\ e.result.isActive = FALSE
    /\ response.flags # Nothing =>
         \A r \in Range(response.flags[1]) : r.isActive <=> (r.reason = "evaluated")

\* one response holds an evaluated result of a flag and an access_denied
\* result of a flag of another application
Wit_C2_EvaluatedAndDenied ==
    /\ response.status = 200
    /\ \E r \in Range(response.flags[1]) : r.reason = "evaluated" /\ r.isActive
    /\ \E r \in Range(response.flags[1]) : r.reason = "access_denied" /\ ~r.isActive
    /\ \E e \in Range(response.evals) : e.result.reason = "evaluated"

\* C3: for an active flag with non-empty variants whose rules match the
\* user, rolloutPct = 0 never gives reason evaluated and rolloutPct = 100
\* always gives it.
Thm_C3_RolloutBoundary ==
    (/\ callPc = "done"
     /\ callArgs.flag.isActive
     /\ Len(callArgs.flag.variants) > 0
     /\ matchesTargetingRules(callArgs.attributes, callArgs.flag.rules)) =>
        /\ ~callRet.threw
        /\ callArgs.flag.rolloutPct = 0 => callRet.value[1].reason # "evaluated"
        /\ callArgs.flag.rolloutPct = 100 => callRet.value[1].reason = "evaluated"

\* the user in bucket 0 is kept out by rolloutPct = 0
Wit_C3_BucketZeroAtZeroPct ==
    /\ callPc = "done"
    /\ callArgs.flag.isActive
    /\ Len(callArgs.flag.variants) > 0
    /\ matchesTargetingRules(callArgs.attributes, callArgs.flag.rules)
    /\ callArgs.flag.rolloutPct = 0
    /\ getBucket(callArgs.userKey, callArgs.flag.salt) = 0
    /\ callRet.value[1].reason = "not_in_rollout"

Thm_C5_BucketRange ==
    callPc = "done" => callRet.bucket \in 0..99

\* the accumulator of "xfjh:tf" is -2^31, and its bucket is 48
Wit_C5_MostNegativeAccumulator ==
    /\ callPc = "done"
    /\ callRet.fn = "getBucketSimple"
    /\ simpleHashLoop(Combined(callArgs.userKey, callArgs.salt), 1, Zero32)
         = W32(Limb \div 2, 0)
    /\ callRet.bucket = 48

\* C6: matchesTargetingRules is true exactly when every constrained
\* dimension passes: country and deviceType need the user's attribute to be
\* one of the listed values, userAgent needs one listed pattern to occur in
\* the user's agent without regard to case, each customProperties key needs
\* the user's value to be in the rule's list or equal to the rule's scalar
\* (a user without the property fails); an absent or empty rule set matches.
Thm_C6_TargetingSemantics ==
    callPc = "done" =>
        LET a == callArgs.attributes
            Fold(c) == IF c \in 65..90 THEN c + 32 ELSE c
            SameFolded(x, y) ==
                Len(x) = Len(y) /\ \A i \in 1..Len(x) : Fold(x[i]) = Fold(y[i])
            Occurs(pattern, text) ==
                \E from \in 1..(Len(text) - Len(pattern) + 1) :
                    SameFolded(SubSeq(text, from, from + Len(pattern) - 1), pattern)
            Listed(dim, attr) ==
                dim = Nothing \/ dim[1] = <<>>
                    \/ (attr # Nothing /\ attr[1] # ""
                        /\ \E i \in 1..Len(dim[1]) : dim[1][i] = attr[1])
            AgentPasses(dim) ==
                dim = Nothing \/ dim[1] = <<>>
                    \/ (a.userAgent # Nothing /\ a.userAgent[1] # <<>>
                        /\ \E i \in 1..Len(dim[1]) : Occurs(dim[1][i], a.userAgent[1]))
            UserHas(key) ==
                a.customProperties # Nothing /\ key \in DOMAIN a.customProperties[1]
            PropertyPasses(entry) ==
                /\ UserHas(entry.key)
                /\ a.customProperties[1][entry.key].kind = "scalar"
                /\ IF entry.value.kind = "array"
                   THEN \E i \in 1..Len(entry.value.items) :
                            entry.value.items[i] = a.customProperties[1][entry.key].v
                   ELSE entry.value.v = a.customProperties[1][entry.key].v
            PropertiesPass(dim) ==
                dim = Nothing \/ \A i \in 1..Len(dim[1]) : PropertyPasses(dim[1][i])
        IN  callRet.matches =
              (\/ callArgs.rules = Nothing
               \/ /\ Listed(callArgs.rules[1].country, a.country)
                  /\ Listed(callArgs.rules[1].deviceType, a.deviceType)
                  /\ AgentPasses(callArgs.rules[1].userAgent)
                  /\ PropertiesPass(callArgs.rules[1].customProperties))

\* all four dimensions are constrained and the user passes each of them,
\* the user agent through a pattern of another case
Wit_C6_AllDimensionsPass ==
    /\ callPc = "done"
    /\ callRet.matches
    /\ callArgs.rules # Nothing
    /\ callArgs.rules[1].country = Some(<<"US", "CA">>)
    /\ callArgs.rules[1].deviceType = Some(<<"mobile">>)
    /\ callArgs.rules[1].userAgent = Some(<<Pat_MOZ>>)
    /\ callArgs.rules[1].customProperties = Some(Rule_proBeta)
    /\ callArgs.attributes.userAgent = Some(UA_Moz)

\* C7: selectVariant fails with the no-variants error for an empty list,
\* whatever the bucket, and returns no variant; for a list of one variant
\* it returns that variant, whatever the bucket and with or without a weight.
Thm_C7_EmptyAndSingle ==
    callPc = "done" =>
        /\ Len(callArgs.variants) = 0 =>
             /\ callRet.threw
             /\ callRet.error = "No variants available"
             /\ callRet.value = Nothing
        /\ Len(callArgs.variants) = 1 =>
             /\ ~callRet.threw
             /\ callRet.value = Some(callArgs.variants[1])

\* the empty list at the highest bucket
Wit_C7_EmptyListThrows ==
    /\ callPc = "done"
    /\ callArgs.variants = <<>>
    /\ callArgs.bucket = 99
    /\ callRet.threw

\* C8: for two or more variants, one of them with a declared weight, all
\* weights non-negative (an undeclared weight counts as 0) and a total above
\* 0, selectVariant returns the first variant whose cumulative weight is at
\* least (bucket / 100) * totalWeight, and it returns it from inside the
\* walk, never from the modulo rule.  The comparison
\* cumulative >= (bucket / 100) * totalWeight is stated over the integers as
\* 100 * cumulative >= bucket * totalWeight.
Cex_C8_WeightedSelection ==
    LET vs == callArgs.variants
        W(i) == IF vs[i].weight = Nothing THEN 0 ELSE vs[i].weight[1]
        Cumulative[i \in 0..Len(vs)] == IF i = 0 THEN 0 ELSE Cumulative[i - 1] + W(i)
        Reaches(i) == 100 * Cumulative[i] >= callArgs.bucket * Cumulative[Len(vs)]
    IN  (/\ callPc = "done"
         /\ Len(vs) >= 2
         /\ \E i \in 1..Len(vs) : vs[i].weight # Nothing
         /\ \A i \in 1..Len(vs) : W(i) >= 0
         /\ Cumulative[Len(vs)] > 0) =>
            /\ ~callRet.threw
            /\ callRet.at = "walk"
            /\ \E i \in 1..Len(vs) :
                 /\ Reaches(i)
                 /\ \A j \in 1..(i - 1) : ~Reaches(j)
                 /\ callRet.value = Some(vs[i])

\* weights 7 and 18 at bucket 28: the cumulative weight of the first variant,
\* 7, equals 28/100 of 25, but the target the code computes, 0.28 * 25 in
\* doubles, is 7.000000000000001, so the walk passes the first variant and
\* returns the second
Wit_C8_WalkPastFirst ==
    /\ callPc = "done"
    /\ callArgs.bucket = 28
    /\ Len(callArgs.variants) = 2
    /\ callArgs.variants[1].weight = Some(7)
    /\ callArgs.variants[2].weight = Some(18)
    /\ callRet.at = "walk"
    /\ callRet.value = Some(callArgs.variants[2])

\* What the code does under the conditions of C8: it returns, from inside
\* the walk, the first variant whose cumulative weight is at least the
\* double nearest to (the double nearest to bucket / 100) * totalWeight.
WalkOnRoundedTarget ==
    LET vs == callArgs.variants
        W(i) == IF vs[i].weight = Nothing THEN 0 ELSE vs[i].weight[1]
        Cumulative[i \in 0..Len(vs)] == IF i = 0 THEN 0 ELSE Cumulative[i - 1] + W(i)
        target == DblTimesInt(DblDivide(callArgs.bucket, 100), Cumulative[Len(vs)])
        Reaches(i) == DblLeqInt(target, Cumulative[i])
    IN  (/\ callPc = "done"
         /\ Len(vs) >= 2
         /\ \E i \in 1..Len(vs) : vs[i].weight # Nothing
         /\ \A i \in 1..Len(vs) : W(i) >= 0
         /\ Cumulative[Len(vs)] > 0) =>
            /\ ~callRet.threw
            /\ callRet.at = "walk"
            /\ \E i \in 1..Len(vs) :
                 /\ Reaches(i)
                 /\ \A j \in 1..(i - 1) : ~Reaches(j)
                 /\ callRet.value = Some(vs[i])

\* C9: for two or more variants, when no variant declares a weight or the
\* declared weights total 0, selectVariant returns
\* variants[bucket mod len(variants)] and raises no error.
Thm_C9_EqualDistribution ==
    LET vs == callArgs.variants
        W(i) == IF vs[i].weight = Nothing THEN 0 ELSE vs[i].weight[1]
        Total[i \in 0..Len(vs)] == IF i = 0 THEN 0 ELSE Total[i - 1] + W(i)
    IN  (/\ callPc = "done"
         /\ Len(vs) >= 2
         /\ \/ \A i \in 1..Len(vs) : vs[i].weight = Nothing
            \/ Total[Len(vs)] = 0) =>
            /\ ~callRet.threw
            /\ callRet.value = Some(vs[(callArgs.bucket % Len(vs)) + 1])

\* declared weights 7 and -7 total 0: bucket 3 of 2 variants takes the second
Wit_C9_ZeroTotalFallback ==
    /\ callPc = "done"
    /\ Len(callArgs.variants) = 2
    /\ callArgs.variants[1].weight = Some(7)
    /\ callArgs.variants[2].weight = Some(0 - 7)
    /\ callArgs.bucket = 3
    /\ callRet.at = "zeroTotal"
    /\ callRet.value = Some(callArgs.variants[2])
\* C10: when getFlag has obtained an active result and issued the
\* exposure-log request, then whether that request is still under way (it
\* may never complete), has failed or has succeeded, getFlag has resolved
\* with the result it fetched, has not rejected, and the cache entry of the
\* flag holds that result with the time it was stored at.
Thm_C10_ExposureFireAndForget ==
    sdkCall.exposure # 0 =>
        /\ exposures[sdkCall.exposure].status \in {"pending", "failed", "ok"}
        /\ sdkCall.pc = "resolved"
        /\ sdkCall.fetched # Nothing
        /\ sdkCall.fetched[1].isActive
        /\ sdkCall.ret = sdkCall.fetched
        /\ cache[sdkCall.flagKey] # Nothing
        /\ cache[sdkCall.flagKey][1].result = sdkCall.fetched[1]

\* the exposure request of the call has failed, and the call has resolved
\* with the evaluated result
Wit_C10_ExposureFailed ==
    /\ sdkCall.exposure # 0
    /\ exposures[sdkCall.exposure].status = "failed"
    /\ sdkCall.pc = "resolved"
    /\ sdkCall.ret # Nothing
    /\ sdkCall.ret[1].reason = "evaluated"
    /\ cache[sdkCall.flagKey][1].result = sdkCall.ret[1]

\* C11: every getFlag call that returns a result with isActive true has
\* triggered an exposure-log call carrying the client's user key, the flag
\* key and the variant of that result; a call that returns a result with
\* isActive false has triggered none.
Cex_C11_ExposurePerActiveResult ==
    (sdkCall.pc = "resolved" /\ sdkCall.ret # Nothing) =>
        IF sdkCall.ret[1].isActive
        THEN /\ sdkCall.exposure \in 1..Len(exposures)
             /\ exposures[sdkCall.exposure].userKey = SdkUserKey
             /\ exposures[sdkCall.exposure].flagKey = sdkCall.flagKey
             /\ exposures[sdkCall.exposure].variant = sdkCall.ret[1].variant
        ELSE sdkCall.exposure = 0

\* getFlag answered from the client's cache: the result is active, nothing
\* was fetched and no exposure-log call was made
Wit_C11_ActiveResultFromCache ==
    /\ sdkCall.pc = "resolved"
    /\ sdkCall.ret # Nothing
    /\ sdkCall.ret[1].isActive
    /\ sdkCall.ret[1].reason = "evaluated"
    /\ sdkCall.fetched = Nothing
    /\ sdkCall.exposure = 0

\* What the code does for C11: a result fetched from the edge endpoint has
\* triggered an exposure-log call exactly when it is active; a result taken
\* from the client's cache or the default result has triggered none.
ExposurePerFetchedResult ==
    (sdkCall.pc = "resolved" /\ sdkCall.ret # Nothing) =>
        IF sdkCall.fetched # Nothing /\ sdkCall.ret[1].isActive
        THEN /\ sdkCall.exposure \in 1..Len(exposures)
             /\ exposures[sdkCall.exposure].userKey = SdkUserKey
             /\ exposures[sdkCall.exposure].flagKey = sdkCall.flagKey
             /\ exposures[sdkCall.exposure].variant = sdkCall.ret[1].variant
        ELSE sdkCall.exposure = 0

\* C12: computeBayesianABTest returns, for each arm, alpha = 1 + conversions
\* and beta = 1 + users - conversions and the users and conversions it was
\* given; when conversions <= users in both arms, every alpha and beta is
\* at least 1 and gammaRandom is called with no shape below 1.
Thm_C12_PosteriorParameters ==
    LET Sound(arm) == arm.conversions <= arm.users
        Echoed(arm, out) ==
            /\ out.alpha = 1 + arm.conversions
            /\ out.beta = 1 + arm.users - arm.conversions
            /\ out.users = arm.users
            /\ out.conversions = arm.conversions
    IN  /\ callPc = "done" =>
             /\ Echoed(callArgs.control, callRet.control)
             /\ Echoed(callArgs.treatment, callRet.treatment)
             /\ \A out \in {callRet.control, callRet.treatment} :
                  out.conversions <= out.users => out.alpha >= 1 /\ out.beta >= 1
        /\ (callPc \in {"running", "done"}
              /\ Sound(callArgs.control) /\ Sound(callArgs.treatment)) =>
             \A k \in 1..Len(sampling.last.shapes) : sampling.last.shapes[k] >= 1

\* an arm without users: the result is returned with alpha = beta = 1, and
\* the last betaRandom call, for that arm, asked gammaRandom for shape 1 twice
Wit_C12_ZeroUserArm ==
    /\ callPc = "done"
    /\ callArgs.control = Arm(0, 0)
    /\ callArgs.treatment = Arm(1, 1)
    /\ callRet.control.alpha = 1
    /\ callRet.control.beta = 1
    /\ callRet.treatment.alpha = 2
    /\ callRet.treatment.beta = 1
    /\ sampling.last.shapes = <<1, 1>>

\* C13: winProbability = treatmentWins / 10000 lies in [0, 1], and
\* isSignificant is true exactly when treatmentWins >= 9500 or
\* treatmentWins <= 500, for every treatmentWins in 0..10000.
Thm_C13_SignificanceRule ==
    callPc = "done" =>
        /\ DblGeq(callRet.winProbability, DblZero)
        /\ DblLeq(callRet.winProbability, DblRatio(1, 1))
        /\ callRet.isSignificant <=>
             (callArgs.treatmentWins >= 9500 \/ callArgs.treatmentWins <= 500)

\* 9500 of 10000 iterations won: significant, at the threshold itself
Wit_C13_AtUpperThreshold ==
    /\ callPc = "done"
    /\ callArgs.treatmentWins = 9500
    /\ callRet.winProbability = Dbl_0_95
    /\ callRet.isSignificant

\* C16: the result of computeBayesianABTest depends only on its data and on
\* the uniform values it draws itself: every normal value that normalRandom
\* hands to a computation was made from uniform values drawn by that same
\* computation, whatever computations ran before it; no value made during
\* one computation is returned as a sample in another.
Cex_C16_SamplerIsolation ==
    callPc \in {"running", "done"} =>
        \A k \in 1..Len(sampling.last.normals) :
            sampling.last.normals[k].computation = sampling.computation

\* the first normal value of the second computation is the spare value the
\* first computation left behind
Wit_C16_SpareFromEarlierComputation ==
    /\ callPc = "running"
    /\ sampling.computation = 2
    /\ Len(sampling.last.normals) > 0
    /\ sampling.last.normals[1] = Normal(1, 40001, "cos")

\* What the code does for C16: within one computation the values handed out
\* are its own from the second value on, and a spare value left behind is
\* the only value that crosses from one computation into a later one.
SpareIsTheOnlyLeak ==
    callPc \in {"running", "done"} =>
        \A k \in 1..Len(sampling.last.normals) :
            \/ sampling.last.normals[k].computation = sampling.computation
            \/ /\ k = 1
               /\ sampling.last.normals[k].half = "cos"
               /\ sampling.last.normals[k].computation = sampling.computation - 1

\* the entries of the last response for experiment id
EntriesOf(id) ==
    {i \in 1..Len(jobResponse.results) : jobResponse.results[i].experiment.id = id}

\* C14: an experiment the job computed a summary for is stopped (stopTs set,
\* isActive false) exactly when the summary is significant; otherwise only
\* its summaryJson changes and it stays active with no stopTs.
Thm_C14_AutoStop ==
    \A i \in 1..Len(jobResponse.results) :
        jobResponse.results[i].summary # Nothing =>
            /\ experiments[jobResponse.results[i].experiment.id]
                   = jobResponse.results[i].experiment
            /\ jobResponse.results[i].experiment.summaryJson
                   = jobResponse.results[i].summary
            /\ (/\ jobResponse.results[i].experiment.stopTs # Nothing
                /\ ~jobResponse.results[i].experiment.isActive)
                   <=> jobResponse.results[i].summary[1].isSignificant
            /\ jobResponse.results[i].autoStopped
                   <=> jobResponse.results[i].summary[1].isSignificant
            /\ ~jobResponse.results[i].summary[1].isSignificant =>
                   /\ jobResponse.results[i].experiment
                          = [jobResponse.before[jobResponse.results[i].experiment.id]
                                EXCEPT !.summaryJson = jobResponse.results[i].summary]
                   /\ jobResponse.results[i].experiment.isActive
                   /\ jobResponse.results[i].experiment.stopTs = Nothing

\* one run stopped an experiment and kept another one running
Wit_C14_StoppedAndKept ==
    \E i, j \in 1..Len(jobResponse.results) :
        /\ jobResponse.results[i].summary # Nothing
        /\ jobResponse.results[j].summary # Nothing
        /\ jobResponse.results[i].summary[1].isSignificant
        /\ ~jobResponse.results[j].summary[1].isSignificant
        /\ ~experiments[jobResponse.results[i].experiment.id].isActive
        /\ experiments[jobResponse.results[j].experiment.id].isActive

\* the failure planned for the experiment happens: the exposures are read
\* for every experiment, the record is written only when there is a summary
FailureHappens(experiment, plan) ==
    \/ plan.fails = "exposure.findMany"
    \/ plan.fails = "experiment.update" /\ ArmUsers(experiment.flagKey) # Nothing

\* C15: in a run over a batch, an experiment whose computation or update
\* fails gets an error entry of its own and keeps its record, every other
\* experiment with data is computed and updated, and the job answers 200.
Thm_C15_ErrorIsolation ==
    Len(jobResponse.batch) > 0 =>
        /\ jobResponse.status = 200
        /\ jobResponse.processedExperiments = Len(jobResponse.results)
        /\ \A k \in 1..Len(jobResponse.batch) :
               IF FailureHappens(jobResponse.batch[k],
                                 jobResponse.plans[jobResponse.batch[k].id])
               THEN /\ Cardinality(EntriesOf(jobResponse.batch[k].id)) = 1
                    /\ \A i \in EntriesOf(jobResponse.batch[k].id) :
                           /\ jobResponse.results[i].error
                                  = Some(jobResponse.plans[jobResponse.batch[k].id].fails)
                           /\ jobResponse.results[i].summary = Nothing
                    /\ experiments[jobResponse.batch[k].id] = jobResponse.batch[k]
               ELSE IF ArmUsers(jobResponse.batch[k].flagKey) # Nothing
               THEN /\ Cardinality(EntriesOf(jobResponse.batch[k].id)) = 1
                    /\ \A i \in EntriesOf(jobResponse.batch[k].id) :
                           /\ jobResponse.results[i].error = Nothing
                           /\ jobResponse.results[i].summary # Nothing
                           /\ experiments[jobResponse.batch[k].id].summaryJson
                                  = jobResponse.results[i].summary
               ELSE EntriesOf(jobResponse.batch[k].id) = {}

\* the first experiment of a batch failed and a later one was computed and
\* saved
Wit_C15_ComputedAfterFailure ==
    /\ jobResponse.status = 200
    /\ \E i, j \in 1..Len(jobResponse.results) :
           /\ i < j
           /\ jobResponse.results[i].error # Nothing
           /\ jobResponse.results[j].summary # Nothing
           /\ experiments[jobResponse.results[j].experiment.id].summaryJson
                  = jobResponse.results[j].summary

\* the results of the last response for a flag key
ResultsFor(key) ==
    IF response.flags = Nothing THEN {}
    ELSE {r \in Range(response.flags[1]) : r.flagKey = key}

\* the last request was answered with results, for the keys it named
AnsweredByKey ==
    asked # Nothing /\ response.status = 200 /\ asked[1].request.flagKeys # Nothing

\* the last request was answered with results, for the flags listed
AnsweredList ==
    asked # Nothing /\ response.status = 200 /\ asked[1].request.flagKeys = Nothing

Cex_C18_InvalidationOnWrite ==
    \A id \in {"f1", "f2"} :
        (AnsweredByKey /\ asked[1].disabledBy[id] \in {"patch", "delete"}) =>
            \A r \in ResultsFor(id) : r.reason # "evaluated"

\* f1 was switched off by a PATCH and is still evaluated for a request
\* naming it
Wit_C18_EvaluatedAfterPatch ==
    /\ AnsweredByKey
    /\ asked[1].disabledBy["f1"] = "patch"
    /\ "f1" \notin DOMAIN flags \/ ~flags["f1"].isActive
    /\ \E r \in ResultsFor("f1") : r.reason = "evaluated" /\ r.isActive

\* in list mode a flag switched off by a PATCH or deleted is not evaluated:
\* updateFlagCache rewrites the list
ListReflectsWrite ==
    \A id \in {"f1", "f2"} :
        (AnsweredList /\ asked[1].disabledBy[id] \in {"patch", "delete"}) =>
            \A r \in ResultsFor(id) : r.reason # "evaluated"

\* C19: flag evaluations go only to requests carrying an API key: a response
\* holding the result of an evaluation answers a request with a Bearer
\* authorization header.
Cex_C19_ApiKeyRequired ==
    (asked # Nothing /\ response.status = 200 /\ Len(response.evals) > 0) =>
        /\ asked[1].request.authorization # Nothing
        /\ asked[1].request.authorization[1].scheme = "Bearer "

\* a request without an Authorization header was answered with an
\* evaluated flag
Wit_C19_EvaluatedWithoutKey ==
    /\ asked # Nothing
    /\ asked[1].request.authorization = Nothing
    /\ response.status = 200
    /\ \E key \in {"f1", "f2"} : \E r \in ResultsFor(key) : r.reason = "evaluated"

\* a Bearer key that is unknown, inactive or expired gets 401 and no results
InvalidKeyRejected ==
    (/\ asked # Nothing
     /\ asked[1].request.authorization # Nothing
     /\ asked[1].request.authorization[1].scheme = "Bearer "
     /\ validateApiKey(apiKeys, asked[1].request.authorization[1].credentials, now).threw)
        => response.status = 401 /\ response.flags = Nothing

\* the flag belongs to an application other than app
Foreign(flag, app) ==
    /\ flag.applicationId # Nothing
    /\ flag.applicationId[1] # ""
    /\ flag.applicationId[1] # app

\* the application of the API key of the last request
AskingApplication ==
    apiKeys[sha256Hash(asked[1].request.authorization[1].credentials)].applicationId

\* the last request was answered with results and carried an API key
AnsweredWithKey ==
    /\ asked # Nothing
    /\ response.status = 200
    /\ asked[1].request.authorization # Nothing
    /\ asked[1].request.authorization[1].scheme = "Bearer "

DeclaredWeight(v) == IF v.weight = Nothing THEN 0 ELSE v.weight[1]

\* a call of selectVariant that takes the weighted walk: two or more
\* variants, a declared weight, no negative weight, a total above 0
WeightedCall ==
    /\ callPc = "done"
    /\ Len(callArgs.variants) >= 2
    /\ \E i \in 1..Len(callArgs.variants) : callArgs.variants[i].weight # Nothing
    /\ \A i \in 1..Len(callArgs.variants) : DeclaredWeight(callArgs.variants[i]) >= 0
    /\ ReduceWeights(callArgs.variants, 1, 0) > 0

\* C27: in weighted selection with a total weight above 0, the variant
\* returned has a declared weight above 0, for every bucket and every order
\* of the variants.
Cex_C27_NoZeroWeightVariant ==
    WeightedCall => ~callRet.threw /\ DeclaredWeight(callRet.value[1]) > 0

\* bucket 0 with a first variant of weight 0: target 0 <= currentWeight 0
\* holds at the first variant, which is returned
Wit_C27_ZeroWeightAtBucketZero ==
    /\ WeightedCall
    /\ callArgs.bucket = 0
    /\ callArgs.variants[1].weight = Some(0)
    /\ callRet.value = Some(callArgs.variants[1])

\* from bucket 1 on the walk never returns a variant of weight 0 or of
\* undeclared weight
ZeroWeightOnlyAtBucketZero ==
    (WeightedCall /\ callArgs.bucket >= 1) =>
        ~callRet.threw /\ DeclaredWeight(callRet.value[1]) > 0

\* the experiment is stopped: stopTs set and isActive false
Stopped(experiment) == experiment.stopTs # Nothing /\ ~experiment.isActive

\* C29: a stopped experiment is not selected by any later run of the job,
\* and no step changes its record (stopTs, isActive, summaryJson).
Thm_C29_StoppedStaysStopped ==
    [][\A id \in DOMAIN experiments :
           Stopped(experiments[id]) =>
               /\ experiments'[id] = experiments[id]
               /\ jobResponse' # jobResponse =>
                      \A k \in 1..Len(jobResponse'.batch) : jobResponse'.batch[k].id # id]_vars

\* e1 was stopped by a run, a later run over the experiments still running
\* has answered, and e1 is as the earlier run left it
Wit_C29_RunAfterStop ==
    /\ jobResponse.status = 200
    /\ Len(jobResponse.batch) > 0
    /\ Stopped(jobResponse.before["e1"])
    /\ jobResponse.before["e1"].summaryJson # Nothing
    /\ experiments["e1"] = jobResponse.before["e1"]

\* the variant names of the exposures given to computeExperimentSummary
VariantsExposed == {callArgs.rows[i].variant : i \in 1..Len(callArgs.rows)}

\* C28: a summary is computed only for two different variants: the
\* treatment variant selected differs from the control variant selected,
\* whatever the variant names and their order, and there is no summary when
\* fewer than two variants have exposures.
Cex_C28_DistinctArms ==
    callPc = "done" =>
        /\ callRet # Nothing => callRet[1].treatmentVariant # callRet[1].controlVariant
        /\ Cardinality(VariantsExposed) < 2 => callRet = Nothing

\* the newest exposures are of variant A, older ones of variant control:
\* control is found by its name at the second key, no key has a treatment
\* name, and the fallback keys[1] is control again
Wit_C28_ControlTwice ==
    /\ callPc = "done"
    /\ VariantsExposed = {"A", "control"}
    /\ callArgs.rows[Len(callArgs.rows)].variant = "A"
    /\ callRet # Nothing
    /\ callRet[1].controlVariant = "control"
    /\ callRet[1].treatmentVariant = "control"

\* there is no summary when fewer than two variants have exposures
NullBelowTwoVariants ==
    (callPc = "done" /\ Cardinality(VariantsExposed) < 2) => callRet = Nothing
\* C21: after any sequence of create and update requests, every stored flag
\* has a non-empty variants list and a rolloutPct within 0..100
Cex_C21_StoredFlagInvariant ==
    \A id \in DOMAIN flags :
        /\ Len(flags[id].variants) > 0
        /\ flags[id].rolloutPct \in 0..100

\* an update request with an empty variants list was answered 200 and the
\* flag is stored without variants
Wit_C21_EmptyVariantsStored ==
    /\ callPc = "PATCH"
    /\ callRet.status = 200
    /\ callArgs[2].variants = Some(<<>>)
    /\ Len(flags[callArgs[1]].variants) = 0

\* the part of C21 the code keeps: rolloutPct is clamped by both handlers
RolloutPctClamped == \A id \in DOMAIN flags : flags[id].rolloutPct \in 0..100

\* the part of C21 the code keeps: a create request with a missing or empty
\* variants list is answered 400 and stores nothing, and a flag created has
\* variants
CreateValidated ==
    [][callPc' = "POST" =>
          /\ (callArgs'.variants = Nothing \/ callArgs'.variants = Some(<<>>)) =>
                 callRet'.status = 400 /\ flags' = flags
          /\ callRet'.status = 201 =>
                 Len(flags'[callArgs'.key[1]].variants) > 0]_vars
\* a step that starts a call of getFlag
GetFlagStarts == sdkCall.pc = "idle" /\ sdkCall'.pc \in {"resolved", "fetching"}

\* the entry of the key is at most 300000 ms old
Fresh(entries, flagKey, t) ==
    entries[flagKey] # Nothing /\ t <= entries[flagKey][1].timestamp + 300000

\* C23: getFlag returns the stored result without a request exactly when the
\* key has an entry and the time is at most its store time plus 300000 ms;
\* an older entry is not returned, is evicted by the lookup, and the call
\* sends a request
Thm_C23_CacheTtl ==
    [][GetFlagStarts =>
          IF Fresh(cache, sdkCall'.flagKey, now)
          THEN /\ sdkCall'.pc = "resolved"
               /\ sdkCall'.ret = Some(cache[sdkCall'.flagKey][1].result)
               /\ inflight' = Nothing
               /\ cache' = cache
          ELSE /\ sdkCall'.pc = "fetching"
               /\ sdkCall'.ret = Nothing
               /\ inflight' # Nothing
               /\ inflight'[1].request.flagKeys = Some(<<sdkCall'.flagKey>>)
               /\ cache'[sdkCall'.flagKey] = Nothing]_vars

\* a call of getFlag found an entry older than 300000 ms, evicted it and is
\* fetching
Wit_C23_ExpiredEntryRefetched ==
    /\ sdkCall.pc = "fetching"
    /\ sdkCall.lookup = "expired"
    /\ cache[sdkCall.flagKey] = Nothing
    /\ inflight # Nothing

\* an entry is returned at the very end of its lifetime
BoundaryHit ==
    /\ sdkCall.pc = "resolved"
    /\ sdkCall.lookup = "hit"
    /\ cache[sdkCall.flagKey] # Nothing
    /\ now = cache[sdkCall.flagKey][1].timestamp + 300000

\* the request of the call under way failed, or its response lacks the flag
FetchFailed ==
    \/ inflight[1].response = Nothing
    \/ inflight[1].response[1].status # 200
    \/ inflight[1].response[1].flags = Nothing
    \/ ResultFor(inflight[1].response[1].flags[1], sdkCall.flagKey) = Nothing

NotFound(flagKey) == Result(flagKey, "control", "b:false", FALSE, "flag_not_found")

Cex_C22_RefreshRefetches ==
    refreshed # Nothing => refreshed[1].cached \subseteq refreshed[1].fetched

\* refresh ran on a cache that held an entry, and the cache is empty
Wit_C22_RefreshWithEntries ==
    /\ refreshed # Nothing
    /\ refreshed[1].cached # {}
    /\ cache = EmptyCache

\* what refresh does: it empties the cache, fetches no key and sends no
\* request
RefreshOnlyClears ==
    [][refreshed' # refreshed =>
          /\ cache' = EmptyCache
          /\ refreshed'[1].fetched = {}
          /\ inflight' = inflight]_vars

\* C25: the cache holds no entry that was requested with attributes other
\* than the client's current ones
Cex_C25_NoStaleAttributes ==
    \A k \in DOMAIN cache :
        cache[k] # Nothing => fetchedWith[k] = Some(userAttributes)

\* the client's country is DE, and getFlag returned from the cache a result
\* evaluated for the country US, which the flag's rules require
Wit_C25_StaleHit ==
    /\ sdkCall.pc = "resolved"
    /\ sdkCall.lookup = "hit"
    /\ userAttributes.country = Some("DE")
    /\ fetchedWith[sdkCall.flagKey] # Some(userAttributes)
    /\ sdkCall.ret[1].reason = "evaluated"

\* the part of C25 the code keeps: updateUserAttributes empties the cache,
\* and a stale entry is only ever stored by the response to a request sent
\* before the update
UpdateClearsCache ==
    [][/\ userAttributes' # userAttributes => cache' = EmptyCache
       /\ \A k \in DOMAIN cache :
              (cache'[k] # Nothing /\ fetchedWith'[k] # Some(userAttributes')) =>
                  \/ cache'[k] = cache[k] /\ userAttributes' = userAttributes
                  \/ inflight # Nothing /\ inflight[1].attributes # userAttributes]_vars
\* the differences collected that are strictly positive
PositiveDifferences ==
    Cardinality({i \in 1..Len(sampling.differences) : sampling.differences[i] > 0})

\* C24: winProbability is the fraction of the N collected differences that
\* are strictly positive, the differences from which lower and upper are
\* taken
Cex_C24_SameSamplePairs ==
    callPc = "done" =>
        /\ Len(sampling.differences) = callRet.winProbability[2]
        /\ callRet.winProbability[1] = PositiveDifferences

\* the estimator returned winProbability 1 and an interval below zero
Wit_C24_WinsAllIntervalBelowZero ==
    /\ callPc = "done"
    /\ callRet.winProbability[1] = callRet.winProbability[2]
    /\ callRet.upper < 0

\* the part of C24 the code keeps: lower and upper are the values at the
\* indices floor(0.025 N) and floor(0.975 N) of the collected differences
\* sorted ascending, and lower <= upper
IntervalFromSortedDifferences ==
    callPc = "done" =>
        LET sorted == SortAscending(sampling.differences)
        IN  /\ Len(sorted) = EstimatorSamples
            /\ \A i \in 1..(Len(sorted) - 1) : sorted[i] <= sorted[i + 1]
            /\ callRet.lower = sorted[((25 * EstimatorSamples) \div 1000) + 1]
            /\ callRet.upper = sorted[((975 * EstimatorSamples) \div 1000) + 1]
            /\ callRet.lower <= callRet.upper

\* the part of C24 the code keeps: each iteration of the first loop counts
\* the pair it drew when the treatment sample is strictly greater
WinsCountedStrictly ==
    [][(sampling.at = "win" /\ sampling' # sampling) =>
          sampling'.treatmentWins =
              sampling.treatmentWins +
              (IF sampling'.last[1] > sampling'.last[2] THEN 1 ELSE 0)]_vars
\* C26: once the kill request and the list requests have completed, the
\* Redis entry of the killed flag has isActive false
Cex_C26_KillSurvivesListing ==
    AllCompleted =>
        /\ RedisGet(redis, FlagCacheKey("f1"), now) # Nothing
        /\ ~RedisGet(redis, FlagCacheKey("f1"), now)[1].isActive

\* after the requests completed the flag is inactive in the database and an
\* edge request is answered with reason evaluated for it
Wit_C26_EvaluatedAfterKill ==
    /\ AllCompleted
    /\ ~flags["f1"].isActive
    /\ response.status = 200
    /\ \E r \in ResultsFor("f1") : r.reason = "evaluated" /\ r.isActive

\* the part of C26 the code keeps: when every list request read the
\* database after the kill's update, the entry of the killed flag is
\* inactive and the flag is answered flag_disabled
KillSurvivesLaterListing ==
    (/\ AllCompleted
     /\ \A r \in {"list1", "list2"} :
            \A i \in 1..Len(handlers[r].found) :
                handlers[r].found[i].key = "f1" => ~handlers[r].found[i].isActive) =>
        /\ Cex_C26_KillSurvivesListing
        /\ \A r \in ResultsFor("f1") : r.reason = "flag_disabled"

====
